---------------------------- MODULE Spec2Model ----------------------------
(***************************************************************************)
(* A model of the career-page crawling subsystem of recruiter-job-tracker: *)
(*   - the fetch strategy chain (execution/scrape_website.py),             *)
(*   - the Playwright job navigator                                        *)
(*     (execution/playwright_job_navigator.py), and                        *)
(*   - the job extractor that calls both                                   *)
(*     (execution/extract_jobs_from_website.py).                           *)
(* Python strings are TLA+ strings; str methods are modelled by what they  *)
(* do, character by character.                                             *)
(***************************************************************************)
EXTENDS Integers, Sequences, FiniteSets, TLC

VARIABLES
    \* ---- fetch chain (WebsiteScraper) ----
    f_pc,        \* position inside scrape / scrape_url_content
    f_entry,     \* which entry point runs: "scrape" or "scrape_url_content"
    f_url,       \* the url argument
    web,         \* the remote site: what each request would produce
    stages,      \* stage methods invoked so far, in order
    requests,    \* network requests / page loads made so far: [stage, url]
    results,     \* stage method -> the tuple it returned
    saved,       \* what _save_content wrote: [content, method], or None
    f_ret,       \* the value returned to the caller, or None
    \* ---- job navigator (PlaywrightJobNavigator.find_job_urls) ----
    n_pc,        \* position inside find_job_urls, or the return it left by
    n_requested, \* the careers_url argument
    careers_url, \* the local careers_url: the effective url after line 63
    page_text,   \* the body text of the loaded page: [text, raises], or None
    calls,       \* the steps invoked so far in this crawl, in order
    frames,      \* the iframes looked at, when an iframe produced the result
    dom,         \* the document the returned jobs were extracted from, or None
    n_ret,       \* the value returned to the caller, or None
    signals,     \* what earlier crawls of this caller ended with: [outcome, value]
    pages,       \* which documents the sites serve: "any" or "simple"
    faults,      \* the best-effort steps in which a browser operation raises
    \* ---- job extractor (JobExtractor.extract_jobs_from_single_company) ----
    e_pc,        \* position inside the call, or "idle"
    e_company,   \* the arguments: [name, company_url], or None
    e_jobs,      \* the local `jobs` of the loop body, or None
    e_nav,       \* what find_job_urls did for the company: [no_jobs, jobs], or None
    enriched,    \* enriched_companies
    e_ret,       \* what the call returned: [companies, single], or None
    returned,    \* what earlier calls without jobs returned: [outcome, value]
    \* ---- one call of a function of the navigator that touches no browser ----
    p_call,      \* the function called, "" before the call
    p_arg,       \* its argument
    p_ret,       \* what it returned, or None
    \* ---- the page interactions of one crawl (the steps of lines 78-96) ----
    b_fn,        \* the function of the navigator that drives the page, "" if none
    b_pc,        \* position inside it
    b_loc,       \* its local variables, or None
    b_ops,       \* the operations it has performed on the page, in order
    \* ---- parallel enrichment (CompanyIntelligence.enrich_companies) ----
    companies,          \* the companies argument: the names, in order
    w_pc,               \* worker (index of its company) -> position
    w_attempt,          \* worker -> API attempts call_with_retry has made
    w_sleeps,           \* worker -> the delays call_with_retry has slept, in order
    w_tmp,              \* worker -> the value it read for the += it is in
    w_ret,              \* worker -> what call_with_retry returned: [content], or None
    total_tokens,       \* self.openai_caller.total_tokens
    call_count,         \* self.openai_caller.call_count
    model_usage,        \* self.openai_caller.model_usage: model -> calls
    completed,          \* the workers in the order their futures completed
    enriched_companies, \* what enrich_companies returned, <<>> before it returns
    top_companies       \* the orchestrator's companies with their enrichment, <<>> before

fetchVars == <<f_pc, f_entry, f_url, web, stages, requests, results, saved, f_ret>>

navVars == <<n_pc, n_requested, careers_url, page_text, calls, frames, dom, n_ret,
             signals, pages, faults>>

extVars == <<e_pc, e_company, e_jobs, e_nav, enriched, e_ret, returned>>

pureVars == <<p_call, p_arg, p_ret>>

stepVars == <<b_fn, b_pc, b_loc, b_ops>>

enrichVars == <<companies, w_pc, w_attempt, w_sleeps, w_tmp, w_ret, total_tokens,
                call_count, model_usage, completed, enriched_companies, top_companies>>

vars == <<f_pc, f_entry, f_url, web, stages, requests, results, saved, f_ret,
          n_pc, n_requested, careers_url, page_text, calls, frames, dom, n_ret,
          signals, pages, faults,
          e_pc, e_company, e_jobs, e_nav, enriched, e_ret, returned,
          p_call, p_arg, p_ret,
          b_fn, b_pc, b_loc, b_ops,
          companies, w_pc, w_attempt, w_sleeps, w_tmp, w_ret, total_tokens,
          call_count, model_usage, completed, enriched_companies, top_companies>>

-----------------------------------------------------------------------------
(* Python values *)

\* Python's None
None == [none |-> TRUE]

-----------------------------------------------------------------------------
(* str methods *)

UpperLetters == "ABCDEFGHIJKLMNOPQRSTUVWXYZ"
LowerLetters == "abcdefghijklmnopqrstuvwxyz"
Digits == "0123456789"

\* the i-th character of s, as a one-character string
CharAt(s, i) == SubSeq(s, i, i)

\* c in s, for a one-character c
CharIn(c, s) == \E i \in 1..Len(s) : CharAt(s, i) = c

\* s.startswith(p)
StartsWith(s, p) == Len(p) <= Len(s) /\ SubSeq(s, 1, Len(p)) = p

\* s.endswith(p)
EndsWith(s, p) == Len(p) <= Len(s) /\ SubSeq(s, Len(s) - Len(p) + 1, Len(s)) = p

\* p in s
Contains(s, p) == \E i \in 1..(Len(s) - Len(p) + 1) : SubSeq(s, i, i + Len(p) - 1) = p

\* whitespace, as str.strip() and the regular expression \s see it
IsSpace(c) == c \in {" ", "\n", "\t", "\r"}

\* s.strip()
RECURSIVE LStrip(_)
LStrip(s) ==
    IF s # "" /\ IsSpace(CharAt(s, 1)) THEN LStrip(Tail(s)) ELSE s

RECURSIVE RStrip(_)
RStrip(s) ==
    IF s # "" /\ IsSpace(CharAt(s, Len(s))) THEN RStrip(SubSeq(s, 1, Len(s) - 1)) ELSE s

Strip(s) == RStrip(LStrip(s))

\* s.replace(old, new)
RECURSIVE Replace(_, _, _)
Replace(s, old, new) ==
    IF Len(s) < Len(old) THEN s
    ELSE IF StartsWith(s, old)
         THEN new \o Replace(SubSeq(s, Len(old) + 1, Len(s)), old, new)
         ELSE CharAt(s, 1) \o Replace(Tail(s), old, new)

\* the characters of s, as a set of one-character strings
CharsOf(s) == {CharAt(s, i) : i \in 1..Len(s)}

UpperSet == CharsOf(UpperLetters)
LowerSet == CharsOf(LowerLetters)
DigitSet == CharsOf(Digits)

\* c.isupper() / c.islower() / c.isdigit() / c.isalpha() for one character
IsUpperChar(c) == c \in UpperSet

IsLowerChar(c) == c \in LowerSet

IsDigitChar(c) == c \in DigitSet

IsAlphaChar(c) == IsUpperChar(c) \/ IsLowerChar(c)

\* the regular expression class \w
IsWordChar(c) == IsAlphaChar(c) \/ IsDigitChar(c) \/ c = "_"

\* the lowercase letter of each uppercase one, and the reverse
ToLower == [c \in UpperSet |->
               CharAt(LowerLetters, CHOOSE i \in 1..Len(UpperLetters) : CharAt(UpperLetters, i) = c)]

ToUpper == [c \in LowerSet |->
               CharAt(UpperLetters, CHOOSE i \in 1..Len(LowerLetters) : CharAt(LowerLetters, i) = c)]

LowerChar(c) == IF IsUpperChar(c) THEN ToLower[c] ELSE c

UpperChar(c) == IF IsLowerChar(c) THEN ToUpper[c] ELSE c

\* s.lower()
RECURSIVE Lower(_)
Lower(s) ==
    IF Len(s) = 0 THEN ""
    ELSE IF Len(s) = 1 THEN LowerChar(s)
    ELSE Lower(SubSeq(s, 1, Len(s) \div 2)) \o Lower(SubSeq(s, Len(s) \div 2 + 1, Len(s)))

\* s.islower(): some cased character, and no uppercase one
IsLower(s) ==
    /\ \E i \in 1..Len(s) : IsLowerChar(CharAt(s, i))
    /\ \A i \in 1..Len(s) : ~IsUpperChar(CharAt(s, i))

\* s.isupper(): some cased character, and no lowercase one
IsUpper(s) ==
    /\ \E i \in 1..Len(s) : IsUpperChar(CharAt(s, i))
    /\ \A i \in 1..Len(s) : ~IsLowerChar(CharAt(s, i))

\* s.title(): a letter after a non-letter is uppercased, every other letter
\* lowercased; prev tells whether the character before s was a letter
RECURSIVE TitleFrom(_, _)
TitleFrom(s, prev) ==
    IF s = "" THEN ""
    ELSE LET c == CharAt(s, 1)
         IN  (IF prev THEN LowerChar(c) ELSE UpperChar(c))
                 \o TitleFrom(Tail(s), IsAlphaChar(c))

Title(s) == TitleFrom(s, FALSE)

\* the position of the first occurrence of the character c in s, 0 if none
FindChar(s, c) ==
    IF CharIn(c, s) THEN CHOOSE i \in 1..Len(s) :
                            /\ CharAt(s, i) = c
                            /\ \A j \in 1..(i - 1) : CharAt(s, j) # c
    ELSE 0

\* the position of the last occurrence of the character c in s, 0 if none
RFindChar(s, c) ==
    IF CharIn(c, s) THEN CHOOSE i \in 1..Len(s) :
                            /\ CharAt(s, i) = c
                            /\ \A j \in (i + 1)..Len(s) : CharAt(s, j) # c
    ELSE 0

\* s.split(sep) for a one-character sep
RECURSIVE Split(_, _)
Split(s, sep) ==
    LET i == FindChar(s, sep)
    IN  IF i = 0 THEN <<s>>
        ELSE <<SubSeq(s, 1, i - 1)>> \o Split(SubSeq(s, i + 1, Len(s)), sep)

\* s[:n]
Prefix(s, n) == SubSeq(s, 1, IF n < Len(s) THEN n ELSE Len(s))

-----------------------------------------------------------------------------
(* The fetch strategy chain: execution/scrape_website.py *)

\* the minimum length of usable content
MIN_CONTENT == 500

\* lengths of the markdown a page converts to
ContentLens == {MIN_CONTENT - 1, MIN_CONTENT, MIN_CONTENT + 1}

\* what requests.get + raise_for_status + BeautifulSoup + markdownify can do
\* for one url: raise requests.exceptions.Timeout, raise another
\* RequestException (connection error, HTTP error status), raise while parsing
\* or converting the markup, or produce markdown of some length
HttpOutcomes ==
    {[kind |-> k, len |-> 0] : k \in {"timeout", "conn_error", "http_status", "parse_error"}}
    \cup {[kind |-> "ok", len |-> n] : n \in ContentLens}

\* what a headless render can do for one url: raise (navigation timeout,
\* browser crash, conversion error) or produce markdown of some length
PlaywrightOutcomes ==
    {[kind |-> "error", len |-> 0]} \cup {[kind |-> "ok", len |-> n] : n \in ContentLens}

\* url arguments given to the scraper
InputUrls ==
    { "https://www.acme.com/jobs",
      "acme.com/jobs",
      " https://acme.com/jobs ",
      "https://acme.com/www.html" }

normalize_url(u) ==
    LET s == Strip(u)
    IN  IF ~(StartsWith(s, "http://") \/ StartsWith(s, "https://"))
        THEN "https://" \o s
        ELSE s

\* non_www_url = url.replace('://www.', '://')
NonWwwUrl(u) == Replace(u, "://www.", "://")

\* the same url on the www. host
WwwTwin(u) == IF Contains(u, "://www.") THEN u ELSE Replace(u, "://", "://www.")

\* the urls a chain started on u can touch, and the www. twin
Universe(u) == {normalize_url(u), NonWwwUrl(normalize_url(u)), WwwTwin(normalize_url(u))}

\* the content a successful conversion yields
Content(u, n, m) == [url |-> u, len |-> n, via |-> m]

Result(ok, content, method) == [success |-> ok, content |-> content, method |-> method]

\* what a stage method did: the tuple returned (or the exception that
\* escaped) and the requests it made
Call(res, reqs, raised) == [res |-> res, reqs |-> reqs, raised |-> raised]

Req(stage, u) == [stage |-> stage, url |-> u]

\* the retry without its length test
HttpRetryNoLengthCheck(u, w) ==
    LET non_www == NonWwwUrl(u)
        o == w.http[non_www]
    IN  IF Contains(u, "www.")
        THEN IF o.kind = "ok"
             THEN Call(Result(TRUE, Content(non_www, o.len, "http"), "http"),
                       <<Req("http", non_www)>>, FALSE)
             ELSE Call(Result(FALSE, None, "http"), <<Req("http", non_www)>>, FALSE)
        ELSE Call(Result(FALSE, None, "http"), <<>>, FALSE)

\* scrape_http, lines 75-97: the retry inside `except RequestException`
HttpRetry(u, w) ==
    LET non_www == NonWwwUrl(u)
        o == w.http[non_www]
    IN  IF Contains(u, "www.")
        THEN IF o.kind = "ok" /\ o.len >= MIN_CONTENT
             THEN Call(Result(TRUE, Content(non_www, o.len, "http"), "http"),
                       <<Req("http", non_www)>>, FALSE)
             ELSE Call(Result(FALSE, None, "http"), <<Req("http", non_www)>>, FALSE)
        ELSE Call(Result(FALSE, None, "http"), <<>>, FALSE)

\* scrape_http that answers a timeout by asking the www. twin
scrape_http_TimeoutAsksTwin(url, w) ==
    LET u == normalize_url(url)
        o == w.http[u]
        t == w.http[WwwTwin(u)]
        first == <<Req("http", u)>>
    IN  CASE o.kind = "ok" ->
                IF o.len < MIN_CONTENT
                THEN Call(Result(FALSE, None, "http"), first, FALSE)
                ELSE Call(Result(TRUE, Content(u, o.len, "http"), "http"), first, FALSE)
          [] o.kind = "timeout" ->
                IF t.kind = "ok" /\ t.len >= MIN_CONTENT
                THEN Call(Result(TRUE, Content(WwwTwin(u), t.len, "http"), "http"),
                          first \o <<Req("http", WwwTwin(u))>>, FALSE)
                ELSE Call(Result(FALSE, None, "http"),
                          first \o <<Req("http", WwwTwin(u))>>, FALSE)
          [] o.kind \in {"conn_error", "http_status"} ->
                LET r == HttpRetry(u, w)
                IN  Call(r.res, first \o r.reqs, FALSE)
          [] o.kind = "parse_error" ->
                Call(None, first, TRUE)

\* scrape_http
scrape_http(url, w) ==
    LET u == normalize_url(url)
        o == w.http[u]
        first == <<Req("http", u)>>
    IN  CASE o.kind = "ok" ->
                IF o.len < MIN_CONTENT
                THEN Call(Result(FALSE, None, "http"), first, FALSE)
                ELSE Call(Result(TRUE, Content(u, o.len, "http"), "http"), first, FALSE)
          [] o.kind = "timeout" ->
                Call(Result(FALSE, None, "http"), first, FALSE)
          [] o.kind \in {"conn_error", "http_status"} ->
                LET r == HttpRetry(u, w)
                IN  Call(r.res, first \o r.reqs, FALSE)
          [] o.kind = "parse_error" ->
                \* neither except clause matches: the exception leaves scrape_http
                Call(None, first, TRUE)


\* scrape_playwright, lines 140-170: the retry inside `except Exception`
PlaywrightRetry(u, w) ==
    LET non_www == NonWwwUrl(u)
        o == w.pw[non_www]
    IN  IF Contains(u, "www.")
        THEN IF o.kind = "ok" /\ o.len >= MIN_CONTENT
             THEN Call(Result(TRUE, Content(non_www, o.len, "playwright"), "playwright"),
                       <<Req("playwright", non_www)>>, FALSE)
             ELSE Call(Result(FALSE, None, "playwright"),
                       <<Req("playwright", non_www)>>, FALSE)
        ELSE Call(Result(FALSE, None, "playwright"), <<>>, FALSE)

\* scrape_playwright
scrape_playwright(url, w) ==
    LET u == normalize_url(url)
        o == w.pw[u]
        first == <<Req("playwright", u)>>
    IN  CASE ~w.installed ->
                \* except ImportError
                Call(Result(FALSE, None, "playwright"), <<>>, FALSE)
          [] w.installed /\ o.kind = "ok" ->
                IF o.len < MIN_CONTENT
                THEN Call(Result(FALSE, None, "playwright"), first, FALSE)
                ELSE Call(Result(TRUE, Content(u, o.len, "playwright"), "playwright"),
                          first, FALSE)
          [] w.installed /\ o.kind = "error" ->
                LET r == PlaywrightRetry(u, w)
                IN  Call(r.res, first \o r.reqs, FALSE)

\* scrape_bright_data: not implemented, always reports failure
scrape_bright_data(url, w) ==
    Call(Result(FALSE, None, "bright_data"), <<>>, FALSE)

\* a success test that lets the chain go on after a success
UsableIgnoresSuccess(r) == r.success /\ r.content = None

\* `if success and content:` of scrape and scrape_url_content
Usable(r) == r.success /\ r.content # None /\ r.content.len > 0

NoResults == [http |-> None, playwright |-> None, bright_data |-> None]

Webs(u) ==
    [http : [Universe(u) -> HttpOutcomes],
     pw : [Universe(u) -> PlaywrightOutcomes],
     installed : BOOLEAN]

\* no crawl is running
NavIdle ==
    /\ n_pc = "idle"
    /\ n_requested = ""
    /\ careers_url = ""
    /\ page_text = None
    /\ calls = <<>>
    /\ frames = <<>>
    /\ dom = None
    /\ n_ret = None
    /\ signals = {}
    /\ pages = "any"
    /\ faults = {}

\* no extraction is running
ExtractIdle ==
    /\ e_pc = "idle"
    /\ e_company = None
    /\ e_jobs = None
    /\ e_nav = None
    /\ enriched = <<>>
    /\ e_ret = None
    /\ returned = {}

\* no single function is called
PureIdle ==
    /\ p_call = ""
    /\ p_arg = None
    /\ p_ret = None

\* no page is being interacted with
StepsIdle ==
    /\ b_fn = ""
    /\ b_pc = "idle"
    /\ b_loc = None
    /\ b_ops = <<>>

\* no enrichment runs
EnrichIdle ==
    /\ companies = <<>>
    /\ w_pc = <<>>
    /\ w_attempt = <<>>
    /\ w_sleeps = <<>>
    /\ w_tmp = <<>>
    /\ w_ret = <<>>
    /\ total_tokens = 0
    /\ call_count = 0
    /\ model_usage = {}
    /\ completed = <<>>
    /\ enriched_companies = <<>>
    /\ top_companies = <<>>

InitFetch ==
    /\ f_pc = "http"
    /\ f_entry \in {"scrape", "scrape_url_content"}
    /\ f_url \in InputUrls
    /\ web \in Webs(f_url)
    /\ stages = <<>>
    /\ requests = <<>>
    /\ results = NoResults
    /\ saved = None
    /\ f_ret = None
    /\ NavIdle
    /\ ExtractIdle
    /\ PureIdle

    /\ StepsIdle

    /\ EnrichIdle
\* scrape lines 252-256, scrape_url_content lines 188-190
TryHttp ==
    /\ f_pc = "http"
    /\ LET c == scrape_http(f_url, web)
       IN  /\ stages' = Append(stages, "http")
           /\ requests' = requests \o c.reqs
           /\ IF c.raised
              THEN /\ f_pc' = "raised"
                   /\ UNCHANGED <<results, saved, f_ret>>
              ELSE /\ results' = [results EXCEPT !.http = c.res]
                   /\ IF Usable(c.res)
                      THEN /\ f_pc' = "done"
                           /\ saved' = IF f_entry = "scrape"
                                       THEN [content |-> c.res.content, method |-> c.res.method]
                                       ELSE saved
                           /\ f_ret' = IF f_entry = "scrape"
                                       THEN [value |-> TRUE]
                                       ELSE [value |-> c.res.content]
                      ELSE /\ f_pc' = "playwright"
                           /\ UNCHANGED <<saved, f_ret>>
    /\ UNCHANGED <<f_entry, f_url, web>>
    /\ UNCHANGED navVars
    /\ UNCHANGED extVars
    /\ UNCHANGED pureVars

    /\ UNCHANGED stepVars

    /\ UNCHANGED enrichVars
\* scrape lines 258-263, scrape_url_content lines 192-197
TryPlaywright ==
    /\ f_pc = "playwright"
    /\ LET c == scrape_playwright(f_url, web)
       IN  /\ stages' = Append(stages, "playwright")
           /\ requests' = requests \o c.reqs
           /\ results' = [results EXCEPT !.playwright = c.res]
           /\ IF Usable(c.res)
              THEN /\ f_pc' = "done"
                   /\ saved' = IF f_entry = "scrape"
                               THEN [content |-> c.res.content, method |-> c.res.method]
                               ELSE saved
                   /\ f_ret' = IF f_entry = "scrape"
                               THEN [value |-> TRUE]
                               ELSE [value |-> c.res.content]
              ELSE IF f_entry = "scrape"
                   THEN /\ f_pc' = "bright_data"
                        /\ UNCHANGED <<saved, f_ret>>
                   ELSE /\ f_pc' = "done"
                        /\ f_ret' = [value |-> None]
                        /\ UNCHANGED saved
    /\ UNCHANGED <<f_entry, f_url, web>>
    /\ UNCHANGED navVars
    /\ UNCHANGED extVars
    /\ UNCHANGED pureVars

    /\ UNCHANGED stepVars

    /\ UNCHANGED enrichVars
\* scrape lines 265-273
TryBrightData ==
    /\ f_pc = "bright_data"
    /\ LET c == scrape_bright_data(f_url, web)
       IN  /\ stages' = Append(stages, "bright_data")
           /\ requests' = requests \o c.reqs
           /\ results' = [results EXCEPT !.bright_data = c.res]
           /\ f_pc' = "done"
           /\ IF Usable(c.res)
              THEN /\ saved' = [content |-> c.res.content, method |-> c.res.method]
                   /\ f_ret' = [value |-> TRUE]
              ELSE /\ f_ret' = [value |-> FALSE]
                   /\ UNCHANGED saved
    /\ UNCHANGED <<f_entry, f_url, web>>
    /\ UNCHANGED navVars
    /\ UNCHANGED extVars
    /\ UNCHANGED pureVars

    /\ UNCHANGED stepVars

    /\ UNCHANGED enrichVars
NextFetch == TryHttp \/ TryPlaywright \/ TryBrightData

SpecFetch == InitFetch /\ [][NextFetch]_vars


-----------------------------------------------------------------------------
(* Properties of the fetch chain *)

FreeStages == {"http", "playwright"}

StageOrder == <<"http", "playwright", "bright_data">>

\* the requests one stage made, in order
RECURSIVE RequestsOf(_, _)
RequestsOf(stage, reqs) ==
    IF reqs = <<>> THEN <<>>
    ELSE IF Head(reqs).stage = stage
         THEN <<Head(reqs)>> \o RequestsOf(stage, Tail(reqs))
         ELSE RequestsOf(stage, Tail(reqs))

\* what the site answers to a request
Answer(r) == IF r.stage = "http" THEN web.http[r.url] ELSE web.pw[r.url]

\* the first attempt of a stage, as the site answers it
FirstFailed(stage) ==
    LET u == normalize_url(f_url)
        o == IF stage = "http" THEN web.http[u] ELSE web.pw[u]
    IN  \/ stage = "playwright" /\ ~web.installed
        \/ o.kind # "ok"
        \/ o.len < MIN_CONTENT

\* C1: whenever scrape_http or scrape_playwright returns success=True the
\* content is the retrieved one, is not None and has at least 500 characters;
\* a stage whose last request retrieved fewer than 500 characters returns
\* success=False with content None, on the first attempt and on the retry.
C1_SuccessMeansEnoughContent ==
    \A s \in FreeStages :
        results[s] # None =>
            LET r == results[s]
                rs == RequestsOf(s, requests)
            IN  /\ r.method = s
                /\ r.success =>
                      /\ r.content # None
                      /\ r.content.len >= MIN_CONTENT
                      /\ rs # <<>>
                      /\ r.content.url = rs[Len(rs)].url
                      /\ Answer(rs[Len(rs)]) = [kind |-> "ok", len |-> r.content.len]
                /\ ~r.success => r.content = None
                /\ (/\ rs # <<>>
                    /\ Answer(rs[Len(rs)]).kind = "ok"
                    /\ Answer(rs[Len(rs)]).len < MIN_CONTENT)
                      => ~r.success /\ r.content = None

\* a www-stripped retry retrieved content below the threshold
C1_Witness ==
    \E s \in FreeStages :
        /\ results[s] # None
        /\ Len(RequestsOf(s, requests)) = 2
        /\ Answer(RequestsOf(s, requests)[2]) = [kind |-> "ok", len |-> MIN_CONTENT - 1]
        /\ ~results[s].success

\* the case of C6: an apex url whose HTTP request times out while the
\* www. twin would succeed
ApexTimesOutTwinSucceeds ==
    LET u == normalize_url(f_url)
    IN  /\ ~Contains(u, "://www.")
        /\ web.http[u].kind = "timeout"
        /\ web.http[WwwTwin(u)].kind = "ok"
        /\ web.http[WwwTwin(u)].len >= MIN_CONTENT

\* the content handed to the caller, or None
Delivered ==
    IF f_entry = "scrape"
    THEN (IF saved = None THEN None ELSE saved.content)
    ELSE (IF f_ret = None THEN None ELSE f_ret.value)

C7_Claim ==
    \A s \in FreeStages :
        LET i == CHOOSE k \in 1..3 : StageOrder[k] = s
            u == normalize_url(f_url)
            rs == RequestsOf(s, requests)
            o == IF s = "http" THEN web.http[NonWwwUrl(u)] ELSE web.pw[NonWwwUrl(u)]
        IN  (/\ Len(stages) > i \/ (Len(stages) = i /\ f_pc = "done")
             /\ Contains(u, "://www.")
             /\ FirstFailed(s))
            => /\ rs = <<Req(s, u), Req(s, NonWwwUrl(u))>>
               /\ (o.kind = "ok" /\ o.len >= MIN_CONTENT) =>
                     results[s] = Result(TRUE, Content(NonWwwUrl(u), o.len, s), s)

\* C8: the stages run in the order HTTP, headless, paid API; a stage runs only
\* after every earlier stage returned failure; what scrape saves and what
\* scrape_url_content returns is the content and method of the first stage
\* that succeeded.
C8_StagesInOrder ==
    /\ \E n \in 0..3 : stages = SubSeq(StageOrder, 1, n)
    /\ \A i \in 2..Len(stages) : \A j \in 1..(i - 1) :
          /\ results[stages[j]] # None
          /\ ~results[stages[j]].success
    /\ (f_pc = "done") =>
          LET last == results[stages[Len(stages)]]
          IN  IF last.success
              THEN /\ Delivered = last.content
                   /\ Delivered.via = last.method
                   /\ last.method = stages[Len(stages)]
                   /\ f_entry = "scrape" =>
                         saved = [content |-> last.content, method |-> last.method]
              ELSE /\ Delivered = None
                   /\ stages = (IF f_entry = "scrape" THEN StageOrder
                                ELSE SubSeq(StageOrder, 1, 2))

\* the paid stage was reached, and a run ended on a headless success
C8_Witness ==
    /\ f_pc = "done"
    /\ stages = <<"http", "playwright">>
    /\ f_entry = "scrape"
    /\ saved # None
    /\ saved.method = "playwright"

\* C9 as claimed: no failure inside a stage is raised to the caller; a failed
\* stage returns (False, None, method), and when every stage failed scrape
\* returns False and scrape_url_content returns None.
C9_Claim ==
    /\ f_pc # "raised"
    /\ \A s \in FreeStages :
          (results[s] # None /\ ~results[s].success) => results[s] = Result(FALSE, None, s)
    /\ (f_pc = "done" /\ Delivered = None) =>
          f_ret = [value |-> (IF f_entry = "scrape" THEN FALSE ELSE None)]


-----------------------------------------------------------------------------
(* The job navigator: execution/playwright_job_navigator.py                *)
(* Pure helpers first.                                                     *)

\* any(p in s for p in ps)
ContainsAny(s, ps) == \E p \in ps : Contains(s, p)

\* urllib.parse: the scheme of url ("" if it has none), lowercased
UrlScheme(url) ==
    LET i == FindChar(url, ":")
    IN  IF /\ i > 1
           /\ IsAlphaChar(CharAt(url, 1))
           /\ \A j \in 1..(i - 1) :
                 IsAlphaChar(CharAt(url, j)) \/ IsDigitChar(CharAt(url, j))
                     \/ CharAt(url, j) \in {"+", "-", "."}
        THEN Lower(SubSeq(url, 1, i - 1))
        ELSE ""

\* scheme://netloc of an absolute url
UrlOrigin(url) ==
    LET NetlocFrom(start) ==                   \* start: first character of the netloc
            LET NetlocUpTo(k) == IF k = 0 THEN url ELSE SubSeq(url, 1, start + k - 2)
            IN  NetlocUpTo(FindChar(SubSeq(url, start, Len(url)), "/"))
    IN  NetlocFrom(Len(UrlScheme(url)) + 4)

\* the path of an absolute url ("" if none)
UrlPath(url) == SubSeq(url, Len(UrlOrigin(url)) + 1, Len(url))

\* urllib.parse.urljoin(base, href) for an absolute http(s) base and an href
\* without query, fragment or dot segments
urljoin(base, href) ==
    IF href = "" THEN base
    ELSE IF UrlScheme(href) # "" THEN href
    ELSE IF StartsWith(href, "//") THEN UrlScheme(base) \o ":" \o href
    ELSE IF StartsWith(href, "/") THEN UrlOrigin(base) \o href
    ELSE LET DirOf(path) == SubSeq(path, 1, RFindChar(path, "/"))
             InDir(dir) == UrlOrigin(base) \o (IF dir = "" THEN "/" ELSE dir) \o href
         IN  InDir(DirOf(UrlPath(base)))

external_boards ==
    { "greenhouse.io", "lever.co", "workdayjobs.com", "myworkdayjobs.com",
      "paycomonline.net", "icims.com", "ultipro.com", "bamboohr.com",
      "jobvite.com", "smartrecruiters.com", "taleo.net", "breezy.hr",
      "workable.com", "recruitee.com", "personio.de", "greenhouse.com",
      "ashbyhq.com", "comeet.com", "jazz.co", "applytojob.com",
      "recruiting.paylocity.com", "recruiting.ultipro.com" }

\* _is_external_job_board with a list of one board
_is_external_job_board_GreenhouseOnly(url) == Contains(Lower(url), "greenhouse.io")

_is_external_job_board(url) ==
    LET url_lower == Lower(url)
    IN  \E board \in external_boards : Contains(url_lower, board)

doc_extensions == {".pdf", ".doc", ".docx", ".rtf"}

_is_document_link(url) ==
    LET url_lower == Lower(url)
    IN  \E ext \in doc_extensions : EndsWith(url_lower, ext)

document_job_keywords ==
    {"director", "manager", "engineer", "designer", "analyst", "lead", "senior"}

_is_job_document(text) ==
    LET text_lower == Lower(text)
    IN  \E keyword \in document_job_keywords : Contains(text_lower, keyword)

\* never clicks: returns the default url
_check_for_modal(default_url) == default_url

job_url_patterns ==
    { "/job/", "/jobs/", "/career/", "/careers/", "/position/", "/positions/",
      "/opening/", "/openings/", "/vacancy/", "/vacancies/", "/role/", "/roles/",
      "/opportunity/", "/opportunities/", "/hiring/", "/apply/" }

job_keywords ==
    { "engineer", "developer", "manager", "director", "analyst", "specialist",
      "coordinator", "lead", "senior", "junior", "associate", "head of",
      "designer", "architect", "consultant", "representative", "executive",
      "scientist", "researcher", "technician", "administrator", "officer" }

exclude_keywords ==
    { "home", "about", "contact", "blog", "news", "all jobs", "view all",
      "search", "filter", "category", "department", "location", "apply now",
      "learn more", "read more", "sign up", "register", "login", "logout" }

\* href.split('/')[-1]
LastSegment(href) == SubSeq(href, RFindChar(href, "/") + 1, Len(href))

\* _is_job_link whose exclusion phrases count in texts of any length
_is_job_link_AlwaysExcludes(href, text, full_url) ==
    LET href_lower == Lower(href)
        text_lower == Lower(text)
        has_job_pattern == ContainsAny(href_lower, job_url_patterns)
        seg == LastSegment(href)
        has_identifier == (\E i \in 1..Len(seg) : IsDigitChar(CharAt(seg, i)))
                              \/ Len(seg) > 10
        has_job_keyword == ContainsAny(text_lower, job_keywords)
        is_excluded == ContainsAny(text_lower, exclude_keywords)
    IN  \/ has_job_pattern /\ has_identifier
        \/ has_job_keyword /\ ~is_excluded /\ Len(text) > 10

_is_job_link(href, text, full_url) ==
    LET href_lower == Lower(href)
        text_lower == Lower(text)
        has_job_pattern == ContainsAny(href_lower, job_url_patterns)
        seg == LastSegment(href)
        has_identifier == (\E i \in 1..Len(seg) : IsDigitChar(CharAt(seg, i)))
                              \/ Len(seg) > 10
        has_job_keyword == ContainsAny(text_lower, job_keywords)
        is_excluded == Len(text) < 50 /\ ContainsAny(text_lower, exclude_keywords)
    IN  \/ has_job_pattern /\ has_identifier
        \/ has_job_keyword /\ ~is_excluded /\ Len(text) > 10

prefixes_to_remove ==
    << "apply for", "apply to", "apply:", "view", "see", "learn more about",
       "read more:", "open position:", "job:", "role:", "position:" >>

suffixes_to_remove == <<" - apply", " - view", " - learn more", " - read more">>

\* the first prefix of the list that lower starts with, 0 if none
FirstPrefix(lower, ps) ==
    IF \E i \in 1..Len(ps) : StartsWith(lower, ps[i])
    THEN CHOOSE i \in 1..Len(ps) :
            /\ StartsWith(lower, ps[i])
            /\ \A j \in 1..(i - 1) : ~StartsWith(lower, ps[j])
    ELSE 0

\* the first suffix of the list that lower ends with, 0 if none
FirstSuffix(lower, ss) ==
    IF \E i \in 1..Len(ss) : EndsWith(lower, ss[i])
    THEN CHOOSE i \in 1..Len(ss) :
            /\ EndsWith(lower, ss[i])
            /\ \A j \in 1..(i - 1) : ~EndsWith(lower, ss[j])
    ELSE 0

\* _extract_title_from_text without the removal of a suffix
_extract_title_from_text_PrefixOnly(text) ==
    LET CutPrefix(title, p) ==
            IF p = 0 THEN title
            ELSE Strip(SubSeq(title, Len(prefixes_to_remove[p]) + 1, Len(title)))
        Cased(title) == IF IsLower(title) \/ IsUpper(title) THEN Title(title) ELSE title
        Stripped(title) ==
            Cased(CutPrefix(title, FirstPrefix(Lower(title), prefixes_to_remove)))
    IN  Stripped(Strip(text))

_extract_title_from_text(text) ==
    LET CutPrefix(title, p) ==
            IF p = 0 THEN title
            ELSE Strip(SubSeq(title, Len(prefixes_to_remove[p]) + 1, Len(title)))
        CutSuffix(title, q) ==
            IF q = 0 THEN title
            ELSE IF Len(title) <= Len(suffixes_to_remove[q]) THEN ""
            ELSE Strip(SubSeq(title, 1, Len(title) - Len(suffixes_to_remove[q])))
        Cased(title) == IF IsLower(title) \/ IsUpper(title) THEN Title(title) ELSE title
        \* title_lower is computed once, before any removal
        Cleaned(title, title_lower) ==
            Cased(CutSuffix(CutPrefix(title, FirstPrefix(title_lower, prefixes_to_remove)),
                            FirstSuffix(title_lower, suffixes_to_remove)))
        Stripped(title) == Cleaned(title, Lower(title))
    IN  Stripped(Strip(text))

\* a job record
Job(title, url, description) ==
    [job_title |-> title, job_url |-> url, description |-> description]


(* _find_expandable_jobs *)

\* the regular expression piece \w+
WordPlus == {"\\w+"}

\* job_title_patterns: each a \b, then pieces separated by \s+
job_title_patterns ==
    << << {"director", "senior director", "vp", "vice president"}, {"of"}, WordPlus >>,
       << {"senior", "lead", "principal", "staff"},
          {"engineer", "developer", "designer", "analyst", "manager"} >>,
       << {"chief"},
          {"executive", "technology", "financial", "operating", "marketing", "product"},
          {"officer"} >>,
       << {"head", "manager", "coordinator", "specialist", "analyst"}, {"of"}, WordPlus >>,
       << {"software", "hardware", "mechanical", "electrical", "data", "security"},
          {"engineer", "developer", "architect"} >>,
       << {"product", "project", "program", "operations", "engineering"}, {"manager"} >>,
       << {"marketing", "sales", "business", "financial", "data"},
          {"analyst", "manager", "director"} >> >>

\* s[i..i+k-1] is all whitespace
AllSpace(s, i, k) == \A j \in i..(i + k - 1) : IsSpace(CharAt(s, j))

\* the pieces match s from position i on
RECURSIVE MatchPieces(_, _, _)
MatchPieces(s, i, pieces) ==
    IF Head(pieces) = WordPlus
    THEN i <= Len(s) /\ IsWordChar(CharAt(s, i))
    ELSE \E w \in Head(pieces) :
            /\ i + Len(w) - 1 <= Len(s)
            /\ SubSeq(s, i, i + Len(w) - 1) = w
            /\ \/ Len(pieces) = 1
               \/ \E k \in 1..(Len(s) - (i + Len(w)) + 1) :
                     /\ AllSpace(s, i + Len(w), k)
                     /\ MatchPieces(s, i + Len(w) + k, Tail(pieces))

\* re.search(pattern, s) for a pattern of job_title_patterns
SearchPattern(pieces, s) ==
    \E i \in 1..Len(s) :
        /\ i = 1 \/ ~IsWordChar(CharAt(s, i - 1))
        /\ MatchPieces(s, i, pieces)

\* any(re.search(pattern, s) for pattern in job_title_patterns)
HasJobTitlePattern(s) ==
    \E n \in 1..Len(job_title_patterns) : SearchPattern(job_title_patterns[n], s)

open_position_indicators ==
    { "open positions", "current openings", "open roles", "available positions",
      "join our team", "we're hiring", "careers at", "work at", "job openings" }

\* the ASCII prefixes of the list, in its order (page text is ASCII here, so
\* the two non-ASCII bullets of the list never match)
bullet_prefixes == <<"-", "*", ">", ">>>">>

\* the loop `for prefix in [...]: if job_title.startswith(prefix): ...`
RECURSIVE StripBullets(_, _)
StripBullets(title, ps) ==
    IF ps = <<>> THEN title
    ELSE StripBullets(
            IF StartsWith(title, Head(ps))
            THEN Strip(SubSeq(title, Len(Head(ps)) + 1, Len(title)))
            ELSE title,
            Tail(ps))

\* ' '.join(strs)
RECURSIVE JoinSpace(_)
JoinSpace(strs) ==
    IF strs = <<>> THEN ""
    ELSE IF Len(strs) = 1 THEN strs[1]
    ELSE strs[1] \o " " \o JoinSpace(Tail(strs))

Max(a, b) == IF a > b THEN a ELSE b

Min(a, b) == IF a < b THEN a ELSE b

\* context_lines of line i (1-based here): lines i-2 .. i+9, stripped
ContextOf(lines, i) ==
    JoinSpace([j \in 1..(Min(Len(lines), i + 9) - Max(1, i - 2) + 1) |->
                  Strip(lines[Max(1, i - 2) + j - 1])])

\* STRATEGY 1: the scan of the lines from line i on; acc is expandable_jobs,
\* seen is seen_titles
RECURSIVE ScanLines(_, _, _, _, _)
ScanLines(lines, i, base_url, acc, seen) ==
    IF i > Len(lines) THEN [jobs |-> acc, seen |-> seen]
    ELSE LET ScanLine(line, job_title) ==
                 IF /\ Len(line) >= 10
                    /\ HasJobTitlePattern(Lower(line))
                    /\ Lower(job_title) \notin seen
                 THEN ScanLines(lines, i + 1, base_url,
                                Append(acc, Job(job_title, base_url,
                                                Prefix(ContextOf(lines, i), 300))),
                                seen \cup {Lower(job_title)})
                 ELSE ScanLines(lines, i + 1, base_url, acc, seen)
             StrippedLine(line) == ScanLine(line, StripBullets(line, bullet_prefixes))
         IN  StrippedLine(Strip(lines[i]))

job_description_keywords ==
    { "responsibilities", "requirements", "qualifications", "experience",
      "skills", "education", "compensation", "salary", "benefits",
      "full-time", "part-time", "remote", "hybrid", "on-site",
      "bachelor", "master", "years of experience" }

\* the first non-empty stripped line of text, text[:100] if there is none
FirstTitleLine(text) ==
    LET FirstAmong(ls) ==
            IF \E i \in 1..Len(ls) : Strip(ls[i]) # ""
            THEN Strip(ls[CHOOSE i \in 1..Len(ls) :
                            /\ Strip(ls[i]) # ""
                            /\ \A j \in 1..(i - 1) : Strip(ls[j]) = ""])
            ELSE Prefix(text, 100)
    IN  FirstAmong(Split(text, "\n"))

\* the elements of one selector the loop looks at
ELEMENT_LIMIT == 20

\* the number of jobs after which the loop over one selector's elements stops
EXPANDABLE_LIMIT == 10

\* STRATEGY 2, one selector: the loop over elements[:20] from element i on.
\* An element is [text, text_raises, clickable, after]: its inner text, whether
\* reading it raises, whether the visibility test and click go through, and its
\* inner text after the click. clicks counts the clicks made.
RECURSIVE ScanElements(_, _, _, _, _, _)
ScanElements(els, i, base_url, acc, seen, clicks) ==
    IF i > Min(Len(els), ELEMENT_LIMIT)
    THEN [jobs |-> acc, seen |-> seen, clicks |-> clicks]
    ELSE LET e == els[i]
             \* lines 749-760: the job is appended, and the loop may stop
             Appended(acc2, seen2, clicks2) ==
                 IF Len(acc2) >= EXPANDABLE_LIMIT
                 THEN [jobs |-> acc2, seen |-> seen2, clicks |-> clicks2]
                 ELSE ScanElements(els, i + 1, base_url, acc2, seen2, clicks2)
             \* lines 735-747: text is the element's text after the click, if any
             Weighed(considered, text, job_title, clicks2) ==
                 IF /\ considered
                    /\ \/ ContainsAny(Lower(text), job_description_keywords)
                       \/ Len(text) > 200
                    /\ Lower(job_title) \notin seen
                 THEN Appended(Append(acc, Job(job_title, base_url, Prefix(text, 300))),
                               seen \cup {Lower(job_title)}, clicks2)
                 ELSE ScanElements(els, i + 1, base_url, acc, seen, clicks2)
             Expanded(considered, text) ==
                 Weighed(considered, text, _extract_title_from_text(FirstTitleLine(text)),
                         IF considered /\ e.clickable THEN clicks + 1 ELSE clicks)
             \* lines 701-729
             Examined(original_text, new_text) ==
                 Expanded(/\ ~e.text_raises
                          /\ Len(original_text) >= 10
                          /\ HasJobTitlePattern(Lower(original_text)),
                          IF e.clickable /\ 2 * Len(new_text) > 3 * Len(original_text)
                          THEN new_text ELSE original_text)
         IN  Examined(Strip(e.text), Strip(e.after))

\* STRATEGY 2: the loop over the selectors, from selector n on; stops after the
\* first selector that produced a job
RECURSIVE ScanSelectors(_, _, _, _)
ScanSelectors(groups, n, base_url, clicks) ==
    IF n > Len(groups) THEN [jobs |-> <<>>, clicks |-> clicks]
    ELSE LET AfterSelector(r) ==
                 IF r.jobs # <<>> THEN [jobs |-> r.jobs, clicks |-> r.clicks]
                 ELSE ScanSelectors(groups, n + 1, base_url, r.clicks)
         IN  AfterSelector(ScanElements(groups[n], 1, base_url, <<>>, {}, clicks))

\* _find_expandable_jobs on a document d: [jobs, clicks]
_find_expandable_jobs(d, base_url) ==
    IF d.body_raises THEN [jobs |-> <<>>, clicks |-> 0]
    ELSE LET has_job_section == ContainsAny(Lower(d.body), open_position_indicators)
             AfterTextScan(expandable_jobs) ==
                 IF expandable_jobs # <<>> THEN [jobs |-> expandable_jobs, clicks |-> 0]
                 ELSE ScanSelectors(d.elements, 1, base_url, 0)
         IN  AfterTextScan(IF has_job_section
                           THEN ScanLines(Split(d.body, "\n"), 1, base_url, <<>>, {}).jobs
                           ELSE <<>>)


(* _extract_aggregator_jobs *)

\* job_cards[:20]
CARD_LIMIT == 20

\* _extract_builtin_jobs: the loop over the cards from card i on. A card is
\* [title, title_raises, href, has_href].
RECURSIVE BuiltinCards(_, _, _, _)
BuiltinCards(cards, i, base_url, acc) ==
    IF i > Min(Len(cards), CARD_LIMIT) THEN acc
    ELSE LET c == cards[i]
             title == Strip(c.title)
         IN  IF ~c.title_raises /\ title # "" /\ c.has_href /\ c.href # ""
             THEN BuiltinCards(cards, i + 1, base_url,
                               Append(acc, Job(title, urljoin(base_url, c.href), "")))
             ELSE BuiltinCards(cards, i + 1, base_url, acc)

_extract_builtin_jobs(d, base_url) ==
    IF d.cards_raise THEN <<>> ELSE BuiltinCards(d.cards, 1, base_url, <<>>)

\* _extract_linkedin_jobs and _extract_indeed_jobs: the same loop, the title
\* tested before it is stripped
RECURSIVE PlainCards(_, _, _, _)
PlainCards(cards, i, base_url, acc) ==
    IF i > Min(Len(cards), CARD_LIMIT) THEN acc
    ELSE LET c == cards[i]
         IN  IF ~c.title_raises /\ c.title # "" /\ c.has_href /\ c.href # ""
             THEN PlainCards(cards, i + 1, base_url,
                             Append(acc, Job(Strip(c.title), urljoin(base_url, c.href), "")))
             ELSE PlainCards(cards, i + 1, base_url, acc)

_extract_linkedin_jobs(d, base_url) ==
    IF d.cards_raise THEN <<>> ELSE PlainCards(d.cards, 1, base_url, <<>>)

_extract_indeed_jobs(d, base_url) ==
    IF d.cards_raise THEN <<>> ELSE PlainCards(d.cards, 1, base_url, <<>>)

_extract_aggregator_jobs(d, base_url) ==
    LET base_lower == Lower(base_url)
    IN  IF Contains(base_lower, "builtin.com") THEN _extract_builtin_jobs(d, base_url)
        ELSE IF Contains(base_lower, "linkedin.com") THEN _extract_linkedin_jobs(d, base_url)
        ELSE IF Contains(base_lower, "indeed.com") THEN _extract_indeed_jobs(d, base_url)
        ELSE <<>>

(* _extract_job_links *)

\* {job['job_url'] for job in jobs}
UrlsOf(jobs) == {jobs[i].job_url : i \in 1..Len(jobs)}

\* lines 368-371: the aggregator jobs not seen yet, from job i on
RECURSIVE MergeUnseen(_, _, _, _)
MergeUnseen(jobs, i, acc, seen) ==
    IF i > Len(jobs) THEN [jobs |-> acc, seen |-> seen]
    ELSE IF jobs[i].job_url \notin seen
         THEN MergeUnseen(jobs, i + 1, Append(acc, jobs[i]), seen \cup {jobs[i].job_url})
         ELSE MergeUnseen(jobs, i + 1, acc, seen)

\* text[:200] if len(text) > 50 else ""
LinkDescription(text) == IF Len(text) > 50 THEN Prefix(text, 200) ELSE ""

\* lines 383-388: the hrefs skipped outright
SkippedHref(a) ==
    \/ ~a.has_href
    \/ a.href = ""
    \/ StartsWith(a.href, "#")
    \/ StartsWith(a.href, "javascript:")
    \/ StartsWith(a.href, "mailto:")

\* lines 397-428 for one anchor that is neither skipped nor a duplicate: the
\* job it yields as a one-element sequence, or the empty sequence
\* the anchor loop with the job board test before the document test
ClassifyAnchor_BoardsFirst(a, base_url) ==
    LET Classified(text, full_url) ==
            IF _is_external_job_board(full_url)
            THEN <<Job(_extract_title_from_text(text), full_url, LinkDescription(text))>>
            ELSE IF _is_document_link(full_url)
            THEN IF _is_job_document(text)
                 THEN <<Job(_extract_title_from_text(text), full_url, "PDF/Document")>>
                 ELSE <<>>
            ELSE IF _is_job_link(a.href, text, full_url)
            THEN <<Job(_extract_title_from_text(text), _check_for_modal(full_url),
                       LinkDescription(text))>>
            ELSE <<>>
    IN  Classified(Strip(a.text), urljoin(base_url, a.href))

ClassifyAnchor(a, base_url) ==
    LET Classified(text, full_url) ==
            IF _is_document_link(full_url)
            THEN IF _is_job_document(text)
                 THEN <<Job(_extract_title_from_text(text), full_url, "PDF/Document")>>
                 ELSE <<>>
            ELSE IF _is_external_job_board(full_url)
            THEN <<Job(_extract_title_from_text(text), full_url, LinkDescription(text))>>
            ELSE IF _is_job_link(a.href, text, full_url)
            THEN <<Job(_extract_title_from_text(text), _check_for_modal(full_url),
                       LinkDescription(text))>>
            ELSE <<>>
    IN  Classified(Strip(a.text), urljoin(base_url, a.href))

\* the loop over all_links without the test of line 394
RECURSIVE ScanAnchorsNoDedup(_, _, _, _, _)
ScanAnchorsNoDedup(anchors, i, base_url, acc, seen) ==
    IF i > Len(anchors) THEN acc
    ELSE LET a == anchors[i]
             WithFoundNoDedup(found) ==
                 ScanAnchorsNoDedup(anchors, i + 1, base_url, acc \o found,
                                    seen \cup UrlsOf(found))
         IN  WithFoundNoDedup(IF a.text_raises \/ SkippedHref(a)
                              THEN <<>>
                              ELSE ClassifyAnchor(a, base_url))

\* lines 378-431: the loop over all_links from anchor i on. An anchor is
\* [href, has_href, text, text_raises].
RECURSIVE ScanAnchors(_, _, _, _, _)
ScanAnchors(anchors, i, base_url, acc, seen) ==
    IF i > Len(anchors) THEN acc
    ELSE LET a == anchors[i]
             full_url == urljoin(base_url, a.href)
             WithFound(found) ==
                 ScanAnchors(anchors, i + 1, base_url, acc \o found, seen \cup UrlsOf(found))
         IN  WithFound(IF a.text_raises \/ SkippedHref(a) \/ full_url \in seen
                       THEN <<>>
                       ELSE ClassifyAnchor(a, base_url))

\* _extract_job_links on a document d: [jobs, clicks]
_extract_job_links(d, base_url) ==
    LET \* lines 374-433: m is what the first two strategies left
        WithAnchors(e, m) ==
            IF d.anchors_raise
            THEN [jobs |-> <<>>, clicks |-> e.clicks]
            ELSE [jobs |-> ScanAnchors(d.anchors, 1, base_url, m.jobs, m.seen),
                  clicks |-> e.clicks]
        \* lines 364-371: e is what _find_expandable_jobs gave
        WithAggregator(e) ==
            WithAnchors(e, MergeUnseen(_extract_aggregator_jobs(d, base_url), 1,
                                       e.jobs, UrlsOf(e.jobs)))
    IN  WithAggregator(_find_expandable_jobs(d, base_url))

-----------------------------------------------------------------------------
(* The pages the navigator can meet                                        *)

\* an <a> element: its href attribute (has_href FALSE: get_attribute returns
\* None), its inner text, and whether reading the text raises
Anchor(href, has_href, text, text_raises) ==
    [href |-> href, has_href |-> has_href, text |-> text, text_raises |-> text_raises]

\* an element an expandable selector matches
Element(text, text_raises, clickable, after) ==
    [text |-> text, text_raises |-> text_raises, clickable |-> clickable, after |-> after]

\* a job card of an aggregator page: its title element and its first anchor
Card(title, title_raises, href, has_href) ==
    [title |-> title, title_raises |-> title_raises, href |-> href, has_href |-> has_href]

\* what a page or frame shows to the extraction: its body text, the elements
\* each expandable selector matches (one group per matching selector, in the
\* order of the selectors), its job cards and its anchors
Doc(body, body_raises, elements, cards, cards_raise, anchors, anchors_raise) ==
    [body |-> body, body_raises |-> body_raises, elements |-> elements,
     cards |-> cards, cards_raise |-> cards_raise,
     anchors |-> anchors, anchors_raise |-> anchors_raise]

\* anchors a page can hold: mailto, ATS links with empty and navigational text,
\* an ATS document, a relative and an absolute link to one posting, a link to
\* the careers page itself, an ATS link whose text cannot be read, an absolute
\* link back to a careers page
AnchorPool ==
    { Anchor("mailto:jobs@acme.com", TRUE, "Email your resume for this engineer role", FALSE),
      Anchor("https://jobs.lever.co/acme", TRUE, "", FALSE),
      Anchor("https://boards.greenhouse.io/acme/jobs/102", TRUE, "View all", FALSE),
      Anchor("https://boards.greenhouse.io/acme/handbook.pdf", TRUE, "About us", FALSE),
      Anchor("/careers/senior-engineer-42", TRUE, " Apply for Senior Engineer - View ", FALSE),
      Anchor("https://acme.com/careers/senior-engineer-42", TRUE, "SENIOR ENGINEER", FALSE),
      Anchor("/careers", TRUE, "Senior Engineer openings", FALSE),
      Anchor("https://acme.com/careers", TRUE, "Back to Senior Engineer openings", FALSE),
      Anchor("https://apply.workable.com/acme", TRUE, "", TRUE) }

\* body texts a loaded page or frame can show
BodyPool ==
    { "Welcome to Acme.\nWe build rockets.",
      "Sorry, there are No Current Openings.\nPlease come again",
      "Open Positions\nSenior Engineer, Platform team",
      "We're Hiring\n- Senior Engineer, Platform\nDirector of Marketing\n- senior engineer, platform" }

\* expandable elements a page can hold
ElementPool ==
    { Element("Senior Engineer\nPlatform team", FALSE, TRUE, "Senior Engineer\nPlatform team\nRequirements: rockets"),
      Element("Product Manager (remote)", FALSE, FALSE, "") }

\* job cards an aggregator page can hold
CardPool ==
    { Card(" Senior Rocket Engineer ", FALSE, "/job/rocket-engineer/99", TRUE),
      Card("Talent Community", FALSE, "mailto:jobs@acme.com", TRUE) }

\* an anchor of an aggregator page that points where its first card points
CardPageAnchors ==
    { Anchor("/job/rocket-engineer/99", TRUE, "Rocket engineer", FALSE) }

\* careers_url arguments
CareersUrls == { "https://acme.com/careers", "https://builtin.com/company/acme" }

\* where a navigation can be redirected to
RedirectTarget == "https://jobs.acme.com/openings/"

\* the sequences over S of length at most n
SeqsUpTo(S, n) == UNION {[1..k -> S] : k \in 0..n}

\* the most anchors a main document holds
MaxAnchors == 2

\* the most job cards an aggregator page holds
MaxCards == 2

\* the most expandable selectors that match something on a page
MaxGroups == 2

\* the most iframes a page holds
MaxFrames == 4

\* what the body of a loaded page reads as: a text, or a read that raises
PageTexts ==
    {[text |-> b, raises |-> FALSE] : b \in BodyPool} \cup {[text |-> "", raises |-> TRUE]}

\* base_url is one of the aggregators _extract_aggregator_jobs knows
IsAggregator(base_url) ==
    ContainsAny(Lower(base_url), {"builtin.com", "linkedin.com", "indeed.com"})

\* documents that vary in their anchors
AnchorDocs(t) ==
    {Doc(t.text, t.raises, <<>>, <<>>, FALSE, as, FALSE) :
        as \in SeqsUpTo(AnchorPool, MaxAnchors)}
    \cup {Doc(t.text, t.raises, <<>>, <<>>, FALSE, <<>>, TRUE)}

\* documents that vary in their job cards
CardDocs(t) ==
    {Doc(t.text, t.raises, <<>>, cs, FALSE, as, FALSE) :
        cs \in SeqsUpTo(CardPool, MaxCards) \ {<<>>},
        as \in SeqsUpTo(CardPageAnchors, 1)}
    \cup {Doc(t.text, t.raises, <<>>, <<>>, TRUE, <<>>, FALSE)}

\* documents that vary in the elements their expandable selectors match
ElementDocs(t) ==
    {Doc(t.text, t.raises, gs, <<>>, FALSE, <<>>, FALSE) :
        gs \in SeqsUpTo(SeqsUpTo(ElementPool, 1), MaxGroups) \ {<<>>}}

\* documents with at most one anchor
SimpleDocs(t) ==
    {Doc(t.text, t.raises, <<>>, <<>>, FALSE, as, FALSE) : as \in SeqsUpTo(AnchorPool, 1)}

\* the documents a page with body text t can show to _extract_job_links called
\* with base_url. Cards are looked at on aggregator pages only, and elements
\* only where the text scan finds nothing, so only there do they vary.
Docs(kind, t, base_url) ==
    IF kind = "simple" THEN SimpleDocs(t)
    ELSE AnchorDocs(t)
         \cup (IF IsAggregator(base_url) THEN CardDocs(t) ELSE {})
         \cup (IF /\ ~t.raises
                  /\ _find_expandable_jobs(Doc(t.text, FALSE, <<>>, <<>>, FALSE, <<>>, FALSE),
                                           base_url).jobs = <<>>
               THEN ElementDocs(t) ELSE {})

\* the documents an iframe can show
FrameDocs(kind, base_url) ==
    UNION {SimpleDocs(t) : t \in PageTexts}
    \cup (IF kind # "simple" /\ IsAggregator(base_url)
          THEN {Doc("", TRUE, <<>>, <<c>>, FALSE, <<>>, FALSE) : c \in CardPool}
          ELSE {})

\* what an iframe gives when _check_iframes looks at it: content_frame() is
\* None, something raises, the frame's document yields no job, or it yields some
FrameKinds == {"none", "raises", "empty", "jobs"}

-----------------------------------------------------------------------------
(* find_job_urls *)

no_jobs_indicators ==
    { "no current openings", "no open positions", "not hiring",
      "check back later", "no positions available", "no vacancies",
      "currently no openings", "no jobs at this time",
      "no opportunities available", "come back soon" }

\* _check_no_jobs without the .lower() of line 119
_check_no_jobs_CaseSensitive(t) ==
    IF t.raises THEN FALSE ELSE ContainsAny(t.text, no_jobs_indicators)

\* _check_no_jobs on a page whose body reads as t
_check_no_jobs(t) ==
    IF t.raises THEN FALSE ELSE ContainsAny(Lower(t.text), no_jobs_indicators)

\* iframes[:3]
IFRAME_LIMIT == 3

\* _check_iframes, lines 141-153: the first of the iframes looked at that
\* yields jobs, 0 if none does
\* _check_iframes that looks at every iframe of the page
FirstHit_EveryIframe(fr) ==
    IF \E i \in 1..Len(fr) : fr[i] = "jobs"
    THEN CHOOSE i \in 1..Len(fr) : fr[i] = "jobs" /\ \A j \in 1..(i - 1) : fr[j] # "jobs"
    ELSE 0

FirstHit(fr) ==
    LET n == Min(Len(fr), IFRAME_LIMIT)
    IN  IF \E i \in 1..n : fr[i] = "jobs"
        THEN CHOOSE i \in 1..n : fr[i] = "jobs" /\ \A j \in 1..(i - 1) : fr[j] # "jobs"
        ELSE 0

\* the iframe lists a page can have
FrameLists == SeqsUpTo(FrameKinds, MaxFrames)

\* the iframes _check_iframes has looked at when it returns jobs
HitPrefixes == {SubSeq(fr, 1, FirstHit(fr)) : fr \in {l \in FrameLists : FirstHit(l) > 0}}

\* the exits of find_job_urls: lines 69, 75, 102, 105, 109, 112
ReturnPoints ==
    {"ret_no_jobs", "ret_iframe", "ret_jobs", "ret_empty", "ret_import_error", "ret_failed"}

\* a crawl starts: find_job_urls is called with a careers_url
NavStart(kind, fault_sets) ==
    /\ n_pc = "goto"
    /\ n_requested \in CareersUrls
    /\ careers_url = n_requested
    /\ page_text = None
    /\ calls = <<>>
    /\ frames = <<>>
    /\ dom = None
    /\ n_ret = None
    /\ signals = {}
    /\ pages = kind
    /\ faults \in fault_sets

\* no fetch is running
FetchIdle ==
    /\ f_pc = "idle"
    /\ f_entry = "scrape"
    /\ f_url = ""
    /\ web = None
    /\ stages = <<>>
    /\ requests = <<>>
    /\ results = NoResults
    /\ saved = None
    /\ f_ret = None

\* every browser operation of the best-effort steps goes through
NoFaults == {{}}

InitNav == NavStart("any", NoFaults) /\ FetchIdle /\ ExtractIdle /\ PureIdle /\ StepsIdle /\ EnrichIdle
\* lines 43-63: import, launch, goto, redirect resolution
Goto ==
    /\ n_pc = "goto"
    /\ \/ /\ n_pc' = "ret_import_error"          \* line 107
          /\ n_ret' = <<>>
          /\ UNCHANGED <<careers_url, page_text, calls>>
       \/ /\ n_pc' = "ret_failed"                \* line 110: launch or goto raised
          /\ n_ret' = <<>>
          /\ calls' = Append(calls, "navigation")
          /\ UNCHANGED <<careers_url, page_text>>
       \/ \E final_url \in {n_requested, RedirectTarget}, t \in PageTexts :
             /\ n_pc' = "check_no_jobs"
             /\ careers_url' = IF final_url # careers_url THEN final_url ELSE careers_url
             /\ page_text' = t
             /\ calls' = calls \o <<"navigation", "redirect_resolution">>
             /\ UNCHANGED n_ret
    /\ UNCHANGED <<n_requested, frames, dom, signals, pages, faults>>
    /\ UNCHANGED fetchVars
    /\ UNCHANGED extVars
    /\ UNCHANGED pureVars

    /\ UNCHANGED stepVars

    /\ UNCHANGED enrichVars
\* lines 66-69
CheckNoJobs ==
    /\ n_pc = "check_no_jobs"
    /\ calls' = Append(calls, "no_jobs_detection")
    /\ IF _check_no_jobs(page_text)
       THEN /\ n_pc' = "ret_no_jobs"
            /\ n_ret' = <<>>
       ELSE /\ n_pc' = "check_iframes"
            /\ UNCHANGED n_ret
    /\ UNCHANGED <<n_requested, careers_url, page_text, frames, dom, signals, pages, faults>>
    /\ UNCHANGED fetchVars
    /\ UNCHANGED extVars
    /\ UNCHANGED pureVars

    /\ UNCHANGED stepVars

    /\ UNCHANGED enrichVars
\* lines 72-75 with _check_iframes
CheckIframes ==
    /\ n_pc = "check_iframes"
    /\ calls' = Append(calls, "iframe_delegation")
    /\ \/ /\ n_pc' = "wait_dynamic"    \* locator raises, no iframe, or none yields jobs
          /\ \E fr \in FrameLists : FirstHit(fr) = 0
          /\ UNCHANGED <<frames, dom, n_ret>>
       \/ \E d \in FrameDocs(pages, careers_url) :
             \E frame_jobs \in {_extract_job_links(d, careers_url).jobs} :
                 /\ frame_jobs # <<>>
                 /\ \E looked_at \in HitPrefixes : frames' = looked_at
                 /\ dom' = d
                 /\ n_ret' = frame_jobs
                 /\ n_pc' = "ret_iframe"
    /\ UNCHANGED <<n_requested, careers_url, page_text, signals, pages, faults>>
    /\ UNCHANGED fetchVars
    /\ UNCHANGED extVars
    /\ UNCHANGED pureVars

    /\ UNCHANGED stepVars

    /\ UNCHANGED enrichVars
\* a step without its try/except: what a browser operation raises reaches
\* the `except Exception` of find_job_urls
StepUnguarded(at, name, then) ==
    /\ n_pc = at
    /\ calls' = Append(calls, name)
    /\ IF name \in faults
       THEN /\ n_pc' = "ret_failed"
            /\ n_ret' = <<>>
       ELSE /\ n_pc' = then
            /\ UNCHANGED n_ret
    /\ UNCHANGED <<n_requested, careers_url, page_text, frames, dom, signals, pages, faults>>
    /\ UNCHANGED fetchVars
    /\ UNCHANGED extVars
    /\ UNCHANGED pureVars

    /\ UNCHANGED stepVars

    /\ UNCHANGED enrichVars
\* a best-effort step, whose return value find_job_urls does not use: every
\* browser operation of it sits in a try block with a bare except, so when one
\* raises the step returns as it does otherwise
Step(at, name, then) ==
    /\ n_pc = at
    /\ calls' = Append(calls, name)
    /\ IF name \in faults
       THEN /\ n_pc' = then          \* except: pass / continue / return False
            /\ UNCHANGED n_ret
       ELSE /\ n_pc' = then
            /\ UNCHANGED n_ret
    /\ UNCHANGED <<n_requested, careers_url, page_text, frames, dom, signals, pages, faults>>
    /\ UNCHANGED fetchVars
    /\ UNCHANGED extVars
    /\ UNCHANGED pureVars

    /\ UNCHANGED stepVars

    /\ UNCHANGED enrichVars
\* line 78
_wait_for_dynamic_content == Step("wait_dynamic", "dynamic_wait", "scroll")

\* line 81
_handle_infinite_scroll == Step("scroll", "infinite_scroll", "tabs")

\* tab traversal that goes on to the forms, leaving the filters out
_click_all_tabs_SkipsFilters == Step("tabs", "tab_traversal", "forms")

\* line 84
_click_all_tabs == Step("tabs", "tab_traversal", "filters")

\* line 87
_try_search_filters == Step("filters", "filter_defaulting", "forms")

\* line 90
_handle_forms == Step("forms", "form_interaction", "expand")

\* line 93
_try_expand_job_list == Step("expand", "accordion_expansion", "extract")

\* lines 96-105
\* the link extraction called with the url find_job_urls was called with
ExtractJobLinks_RequestedBase ==
    /\ n_pc = "extract"
    /\ calls' = Append(calls, "link_extraction")
    /\ \E d \in Docs(pages, page_text, careers_url) :
          \E job_links \in {_extract_job_links(d, n_requested).jobs} :
              /\ dom' = d
              /\ IF Len(job_links) > 0
                 THEN n_pc' = "ret_jobs" /\ n_ret' = job_links
                 ELSE n_pc' = "ret_empty" /\ n_ret' = <<>>
    /\ UNCHANGED <<n_requested, careers_url, page_text, frames, signals, pages, faults>>
    /\ UNCHANGED fetchVars
    /\ UNCHANGED extVars
    /\ UNCHANGED pureVars

    /\ UNCHANGED stepVars

    /\ UNCHANGED enrichVars
ExtractJobLinks ==
    /\ n_pc = "extract"
    /\ calls' = Append(calls, "link_extraction")
    /\ \E d \in Docs(pages, page_text, careers_url) :
          \E job_links \in {_extract_job_links(d, careers_url).jobs} :
              /\ dom' = d
              /\ IF Len(job_links) > 0
                 THEN n_pc' = "ret_jobs" /\ n_ret' = job_links
                 ELSE n_pc' = "ret_empty" /\ n_ret' = <<>>
    /\ UNCHANGED <<n_requested, careers_url, page_text, frames, signals, pages, faults>>
    /\ UNCHANGED fetchVars
    /\ UNCHANGED extVars
    /\ UNCHANGED pureVars

    /\ UNCHANGED stepVars

    /\ UNCHANGED enrichVars
NextNav ==
    \/ Goto
    \/ CheckNoJobs
    \/ CheckIframes
    \/ _wait_for_dynamic_content
    \/ _handle_infinite_scroll
    \/ _click_all_tabs
    \/ _try_search_filters
    \/ _handle_forms
    \/ _try_expand_job_list
    \/ ExtractJobLinks

SpecNav == InitNav /\ [][NextNav]_vars

\* the steps of lines 78-93
BestEffortSteps ==
    { "dynamic_wait", "infinite_scroll", "tab_traversal", "filter_defaulting",
      "form_interaction", "accordion_expansion" }

\* the crawls looked at: no step raises, one step raises, all of them raise
FaultSets ==
    {{}} \cup {{step} : step \in BestEffortSteps} \cup {BestEffortSteps}

\* one crawl in which browser operations of the best-effort steps raise
InitSteps == NavStart("simple", FaultSets) /\ FetchIdle /\ ExtractIdle /\ PureIdle /\ StepsIdle /\ EnrichIdle
SpecSteps == InitSteps /\ [][NextNav]_vars

\* which of the outcomes a caller wants to tell apart a return point stands for
OutcomeOf(pc) ==
    CASE pc = "ret_no_jobs" -> "no_jobs"
      [] pc = "ret_empty" -> "zero_candidates"
      [] pc \in {"ret_import_error", "ret_failed"} -> "crawl_failed"
      [] OTHER -> "jobs"

\* extract_jobs_from_companies, lines 33-45: the loop goes on to the next
\* company and calls find_job_urls again; the navigator keeps nothing of the
\* crawl before. signals remembers what the crawls without jobs returned.
NextCompany ==
    /\ n_pc \in ReturnPoints
    /\ signals' = IF OutcomeOf(n_pc) = "jobs" THEN signals
                  ELSE signals \cup {[outcome |-> OutcomeOf(n_pc), value |-> n_ret]}
    /\ n_pc' = "goto"
    /\ \E u \in CareersUrls : n_requested' = u /\ careers_url' = u
    /\ page_text' = None
    /\ calls' = <<>>
    /\ frames' = <<>>
    /\ dom' = None
    /\ n_ret' = None
    /\ UNCHANGED <<pages, faults>>
    /\ UNCHANGED fetchVars
    /\ UNCHANGED extVars
    /\ UNCHANGED pureVars

    /\ UNCHANGED stepVars

    /\ UNCHANGED enrichVars
InitCrawls == NavStart("simple", NoFaults) /\ FetchIdle /\ ExtractIdle /\ PureIdle /\ StepsIdle /\ EnrichIdle
NextCrawls == NextNav \/ NextCompany

SpecCrawls == InitCrawls /\ [][NextCrawls]_vars

-----------------------------------------------------------------------------
(* The job extractor: execution/extract_jobs_from_website.py               *)

\* the company_url arguments of extract_jobs_from_single_company
CompanyUrls == {"https://builtin.com/company/acme", ""}

\* lines 185-189: the one-company list extract_jobs_from_single_company builds
Company(name, company_url) ==
    [name |-> name, company_url |-> company_url, careers_url |-> company_url]

\* line 37: company.get("careers_url") or company.get("company_url")
CompanyCareersUrl(c) == IF c.careers_url # "" THEN c.careers_url ELSE c.company_url

\* line 51: the jobs with a job_url that is not a mailto: one, from job i on
RECURSIVE ValidJobs(_, _)
ValidJobs(jobs, i) ==
    IF i > Len(jobs) THEN <<>>
    ELSE IF jobs[i].job_url # "" /\ ~StartsWith(jobs[i].job_url, "mailto:")
         THEN <<jobs[i]>> \o ValidJobs(jobs, i + 1)
         ELSE ValidJobs(jobs, i + 1)

\* the job records a language model answers with
AiJobPool ==
    { Job("Senior Engineer", "https://acme.com/careers/senior-engineer-42", "Build rockets."),
      Job("Senior Engineer", "mailto:jobs@acme.com", ""),
      Job("Senior Engineer", "", ""),
      Job("CTO", "https://acme.com/careers/cto", "") }

\* what call_with_retry + json.loads give: an exception, or a list of jobs
AiResponses ==
    {[raises |-> TRUE, jobs |-> <<>>]}
    \cup {[raises |-> FALSE, jobs |-> js] : js \in SeqsUpTo(AiJobPool, 1)}

\* lines 133-139: the jobs with a title of more than 3 characters and an
\* http url, from job i on
RECURSIVE AiValidJobs(_, _)
AiValidJobs(jobs, i) ==
    IF i > Len(jobs) THEN <<>>
    ELSE IF /\ Len(jobs[i].job_title) > 3
            /\ jobs[i].job_url # ""
            /\ ~StartsWith(jobs[i].job_url, "mailto:")
            /\ StartsWith(jobs[i].job_url, "http")
         THEN <<jobs[i]>> \o AiValidJobs(jobs, i + 1)
         ELSE AiValidJobs(jobs, i + 1)

\* _extract_jobs_with_ai on a response of the model
_extract_jobs_with_ai(resp) ==
    IF resp.raises THEN <<>> ELSE AiValidJobs(resp.jobs, 1)

\* lines 82-84: the company with its jobs
Enriched(c, jobs) ==
    [name |-> c.name, company_url |-> c.company_url, careers_url |-> c.careers_url,
     jobs |-> jobs, job_count |-> Len(jobs)]

\* lines 196-201: what extract_jobs_from_single_company returns for a company
\* that is not in the enriched list
NotEnriched(c) ==
    [name |-> c.name, company_url |-> c.company_url, jobs |-> <<>>, job_count |-> 0]

\* a call of extract_jobs_from_single_company starts
ExtractStart ==
    /\ e_pc = "called"
    /\ e_company \in {Company("Acme", u) : u \in CompanyUrls}
    /\ e_jobs = None
    /\ e_nav = None
    /\ enriched = <<>>
    /\ e_ret = None

InitExtract == ExtractStart /\ returned = {} /\ NavIdle /\ FetchIdle /\ PureIdle /\ StepsIdle /\ EnrichIdle
\* lines 185-191 and 31-45: the list of one company is built and the loop
\* entered; a company without url is skipped, otherwise find_job_urls is called
EnterLoop ==
    /\ e_pc = "called"
    /\ IF CompanyCareersUrl(e_company) = ""
       THEN /\ e_pc' = "return"
            /\ UNCHANGED <<n_pc, n_requested, careers_url>>
       ELSE /\ e_pc' = "navigate"
            /\ n_pc' = "goto"
            /\ n_requested' = CompanyCareersUrl(e_company)
            /\ careers_url' = CompanyCareersUrl(e_company)
    /\ UNCHANGED <<page_text, calls, frames, dom, n_ret, signals, pages, faults>>
    /\ UNCHANGED <<e_company, e_nav, e_jobs, enriched, e_ret, returned>>
    /\ UNCHANGED fetchVars
    /\ UNCHANGED pureVars

    /\ UNCHANGED stepVars

    /\ UNCHANGED enrichVars
\* the loop body without the valid_jobs filter of line 51
AfterNavigation_KeepsInvalid ==
    /\ e_pc = "navigate"
    /\ n_pc \in ReturnPoints
    /\ e_jobs' = n_ret
    /\ e_pc' = IF Len(n_ret) > 0 THEN "collect" ELSE "scrape_http"
    /\ e_nav' = [no_jobs |-> n_pc = "ret_no_jobs", jobs |-> n_ret]
    /\ n_pc' = "idle"
    /\ n_requested' = ""
    /\ careers_url' = ""
    /\ page_text' = None
    /\ calls' = <<>>
    /\ frames' = <<>>
    /\ dom' = None
    /\ n_ret' = None
    /\ UNCHANGED <<signals, pages, faults>>
    /\ UNCHANGED <<e_company, enriched, e_ret, returned>>
    /\ UNCHANGED fetchVars
    /\ UNCHANGED pureVars

    /\ UNCHANGED stepVars

    /\ UNCHANGED enrichVars
\* lines 45-62: find_job_urls has returned (its locals are gone); the jobs
\* without a usable url are dropped
AfterNavigation ==
    /\ e_pc = "navigate"
    /\ n_pc \in ReturnPoints
    /\ \E valid_jobs \in {ValidJobs(n_ret, 1)} :
          /\ e_jobs' = valid_jobs
          /\ e_pc' = IF Len(valid_jobs) > 0 THEN "collect" ELSE "scrape_http"
    /\ e_nav' = [no_jobs |-> n_pc = "ret_no_jobs", jobs |-> n_ret]
    /\ n_pc' = "idle"
    /\ n_requested' = ""
    /\ careers_url' = ""
    /\ page_text' = None
    /\ calls' = <<>>
    /\ frames' = <<>>
    /\ dom' = None
    /\ n_ret' = None
    /\ UNCHANGED <<signals, pages, faults>>
    /\ UNCHANGED <<e_company, enriched, e_ret, returned>>
    /\ UNCHANGED fetchVars
    /\ UNCHANGED pureVars

    /\ UNCHANGED stepVars

    /\ UNCHANGED enrichVars
\* lines 67-70: scrape_http on the careers url
FallbackHttp ==
    /\ e_pc = "scrape_http"
    /\ \E w \in Webs(CompanyCareersUrl(e_company)) :
          \E c \in {scrape_http(CompanyCareersUrl(e_company), w)} :
              /\ web' = w
              /\ f_url' = CompanyCareersUrl(e_company)
              /\ stages' = Append(stages, "http")
              /\ requests' = requests \o c.reqs
              /\ IF c.raised
                 THEN /\ e_pc' = "raised"
                      /\ UNCHANGED results
                 ELSE /\ results' = [results EXCEPT !.http = c.res]
                      /\ e_pc' = IF Usable(c.res) THEN "ai" ELSE "scrape_playwright"
    /\ UNCHANGED <<f_pc, f_entry, saved, f_ret>>
    /\ UNCHANGED navVars
    /\ UNCHANGED <<e_company, e_nav, e_jobs, enriched, e_ret, returned>>
    /\ UNCHANGED pureVars

    /\ UNCHANGED stepVars

    /\ UNCHANGED enrichVars
\* lines 70-76: scrape_playwright on the careers url; when it fails too the
\* company is skipped
FallbackPlaywright ==
    /\ e_pc = "scrape_playwright"
    /\ \E c \in {scrape_playwright(CompanyCareersUrl(e_company), web)} :
          /\ stages' = Append(stages, "playwright")
          /\ requests' = requests \o c.reqs
          /\ results' = [results EXCEPT !.playwright = c.res]
          /\ e_pc' = IF Usable(c.res) THEN "ai" ELSE "return"
    /\ UNCHANGED <<f_pc, f_entry, f_url, web, saved, f_ret>>
    /\ UNCHANGED navVars
    /\ UNCHANGED <<e_company, e_nav, e_jobs, enriched, e_ret, returned>>
    /\ UNCHANGED pureVars

    /\ UNCHANGED stepVars

    /\ UNCHANGED enrichVars
\* line 79: the page was fetched and is handed to the language model
AiExtract ==
    /\ e_pc = "ai"
    /\ \E resp \in AiResponses : e_jobs' = _extract_jobs_with_ai(resp)
    /\ e_pc' = "collect"
    /\ UNCHANGED <<e_company, e_nav, enriched, e_ret, returned>>
    /\ UNCHANGED fetchVars
    /\ UNCHANGED navVars
    /\ UNCHANGED pureVars

    /\ UNCHANGED stepVars

    /\ UNCHANGED enrichVars
\* lines 81-87: a company with jobs joins enriched_companies
Collect ==
    /\ e_pc = "collect"
    /\ enriched' = IF Len(e_jobs) > 0
                   THEN Append(enriched, Enriched(e_company, e_jobs))
                   ELSE enriched
    /\ e_pc' = "return"
    /\ UNCHANGED <<e_company, e_nav, e_jobs, e_ret, returned>>
    /\ UNCHANGED fetchVars
    /\ UNCHANGED navVars
    /\ UNCHANGED pureVars

    /\ UNCHANGED stepVars

    /\ UNCHANGED enrichVars
\* how the call went for its company
ExtractOutcome ==
    IF enriched # <<>> THEN "jobs"
    ELSE IF CompanyCareersUrl(e_company) = "" THEN "no_url"
    ELSE IF results.playwright # None /\ ~Usable(results.playwright)
    THEN "fetch_failed"
    ELSE "no_jobs_found"

\* line 89 and lines 191-201: extract_jobs_from_companies returns the enriched
\* list, extract_jobs_from_single_company its first entry or the default
ReturnToCaller ==
    /\ e_pc = "return"
    /\ e_pc' = "returned"
    /\ e_ret' = [companies |-> enriched,
                 single |-> IF Len(enriched) > 0 THEN enriched[1]
                            ELSE NotEnriched(e_company)]
    /\ returned' = IF ExtractOutcome = "jobs" THEN returned
                   ELSE returned \cup {[outcome |-> ExtractOutcome,
                                        company |-> e_company,
                                        value |-> e_ret']}
    /\ UNCHANGED <<e_company, e_nav, e_jobs, enriched>>
    /\ UNCHANGED fetchVars
    /\ UNCHANGED navVars
    /\ UNCHANGED pureVars

    /\ UNCHANGED stepVars

    /\ UNCHANGED enrichVars
\* the most calls without jobs the caller makes before it stops
MaxCalls == 2

\* the caller calls again: nothing of the call before is kept by the extractor,
\* the scraper or the navigator; returned remembers what the calls gave
NextCall ==
    /\ e_pc = "returned"
    /\ Cardinality(returned) < MaxCalls
    /\ e_pc' = "called"
    /\ e_company' \in {Company("Acme", u) : u \in CompanyUrls}
    /\ e_jobs' = None
    /\ e_nav' = None
    /\ enriched' = <<>>
    /\ e_ret' = None
    /\ f_url' = ""
    /\ web' = None
    /\ stages' = <<>>
    /\ requests' = <<>>
    /\ results' = NoResults
    /\ UNCHANGED <<f_pc, f_entry, saved, f_ret>>
    /\ UNCHANGED returned
    /\ UNCHANGED navVars
    /\ UNCHANGED pureVars

    /\ UNCHANGED stepVars

    /\ UNCHANGED enrichVars
NextExtract ==
    \/ EnterLoop
    \/ NextNav
    \/ AfterNavigation
    \/ FallbackHttp
    \/ FallbackPlaywright
    \/ AiExtract
    \/ Collect
    \/ ReturnToCaller
    \/ NextCall

SpecExtract == InitExtract /\ [][NextExtract]_vars

-----------------------------------------------------------------------------
(* Properties of the navigator *)

\* step was invoked in this crawl
Invoked(step) == \E i \in 1..Len(calls) : calls[i] = step

\* the steps of find_job_urls that come after the no-jobs detection
LaterSteps ==
    { "iframe_delegation", "dynamic_wait", "infinite_scroll", "tab_traversal",
      "filter_defaulting", "form_interaction", "accordion_expansion", "link_extraction" }

\* the body text of the loaded page contains a no-jobs phrase, whatever its case
ShowsNoJobsPhrase ==
    /\ n_pc \notin {"idle", "goto", "ret_import_error", "ret_failed"}
    /\ ~page_text.raises
    /\ \E phrase \in no_jobs_indicators : Contains(Lower(page_text.text), phrase)

\* C2: a crawl whose loaded page shows a no-jobs phrase (in any case) invokes
\* none of the steps after the no-jobs detection, goes nowhere but to the
\* return of line 69, and returns the empty list there.
C2_NoJobsPhraseEndsCrawl ==
    ShowsNoJobsPhrase =>
        /\ \A step \in LaterSteps : ~Invoked(step)
        /\ n_pc \in {"check_no_jobs", "ret_no_jobs"}
        /\ n_pc = "ret_no_jobs" => n_ret = <<>>

\* a crawl has returned at line 69 for a page whose phrase is not in lower case
C2_Witness ==
    /\ ShowsNoJobsPhrase
    /\ \A phrase \in no_jobs_indicators : ~Contains(page_text.text, phrase)
    /\ n_pc = "ret_no_jobs"
    /\ Invoked("no_jobs_detection")
    /\ n_ret = <<>>

\* url has the mailto scheme
IsMailto(url) == UrlScheme(url) = "mailto"

\* C3: no job record of a returned list has a job_url with the mailto scheme.
C3_NoMailtoCandidate ==
    n_pc \in ReturnPoints =>
        \A i \in 1..Len(n_ret) : ~IsMailto(n_ret[i].job_url)

\* find_job_urls has returned what the extraction on the main document found
ExtractionReturned == n_pc \in {"ret_jobs", "ret_empty"}

\* href is an absolute url on a known external ATS domain
IsAtsHref(href) ==
    /\ UrlScheme(href) \in {"http", "https"}
    /\ \E board \in external_boards : Contains(Lower(href), board)

\* href points to a document file
IsDocumentHref(href) ==
    \E ext \in {".pdf", ".doc", ".docx", ".rtf"} : EndsWith(Lower(href), ext)

\* the anchors of d are ATS anchors with pairwise distinct hrefs
AtsPage(d) ==
    /\ ~d.anchors_raise
    /\ d.anchors # <<>>
    /\ \A i \in 1..Len(d.anchors) : d.anchors[i].has_href /\ IsAtsHref(d.anchors[i].href)
    /\ \A i, j \in 1..Len(d.anchors) : i # j => d.anchors[i].href # d.anchors[j].href

\* neither the text scan, nor the expandable elements, nor the aggregator cards
\* of d give a job
NoEarlierHit(d) ==
    /\ _find_expandable_jobs(d, careers_url).jobs = <<>>
    /\ _extract_aggregator_jobs(d, careers_url) = <<>>

\* the returned list has one candidate per anchor of d, with the anchors' hrefs
OneCandidatePerAnchor(d) ==
    /\ Len(n_ret) = Len(d.anchors)
    /\ UrlsOf(n_ret) = {d.anchors[i].href : i \in 1..Len(d.anchors)}

PlainReadableAnchors(d) ==
    \A i \in 1..Len(d.anchors) :
        ~IsDocumentHref(d.anchors[i].href) /\ ~d.anchors[i].text_raises

FromExtraction == n_pc \in {"ret_jobs", "ret_empty", "ret_iframe"}

\* anchor a is one the anchor pass accepts when it meets it first
Accepted(a) ==
    /\ ~a.text_raises
    /\ ~SkippedHref(a)
    /\ ClassifyAnchor(a, careers_url) # <<>>

\* the anchors of d that resolve to url u, by position
ResolvingTo(d, u) ==
    {i \in 1..Len(d.anchors) : urljoin(careers_url, d.anchors[i].href) = u}

\* the accepted anchors of d that resolve to url u, by position
AcceptedAt(d, u) == {i \in ResolvingTo(d, u) : Accepted(d.anchors[i])}

\* the urls two accepted anchors of d resolve to
SharedUrls(d) ==
    {u \in {urljoin(careers_url, d.anchors[i].href) :
                i \in {k \in 1..Len(d.anchors) : d.anchors[k].has_href}} :
        Cardinality(ResolvingTo(d, u)) >= 2 /\ Cardinality(AcceptedAt(d, u)) >= 2}

\* the returned candidates with job_url u, by position
CandidatesWith(u) == {k \in 1..Len(n_ret) : n_ret[k].job_url = u}

\* the candidate the first accepted anchor of d for u gives
FromFirstAnchor(d, u) ==
    ClassifyAnchor(d.anchors[CHOOSE i \in AcceptedAt(d, u) :
                                 \A j \in AcceptedAt(d, u) : i <= j], careers_url)[1]

\* exactly one candidate with url u is returned, the first anchor's
OnlyFirstAnchor(d, u) ==
    /\ Cardinality(CandidatesWith(u)) = 1
    /\ \A k \in CandidatesWith(u) : n_ret[k] = FromFirstAnchor(d, u)

\* C5 as stated: of two accepted anchors that resolve to the same url, exactly
\* one candidate with that url is returned, built from the first anchor.
C5_Original ==
    (FromExtraction /\ ~dom.anchors_raise) =>
        \A u \in SharedUrls(dom) : OnlyFirstAnchor(dom, u)

\* the candidates the strategies before the anchor pass give for d
EarlierJobs(d) ==
    MergeUnseen(_extract_aggregator_jobs(d, careers_url), 1,
                _find_expandable_jobs(d, careers_url).jobs,
                UrlsOf(_find_expandable_jobs(d, careers_url).jobs)).jobs

\* C5 amended: of two accepted anchors that resolve to the same url, exactly
\* one candidate with that url is returned, built from the first anchor,
\* unless the text scan, the expandable elements or the aggregator cards have
\* given a candidate with that url: then the anchors add none.
C5_Amended ==
    (FromExtraction /\ ~dom.anchors_raise) =>
        \A u \in SharedUrls(dom) :
            IF u \in UrlsOf(EarlierJobs(dom))
            THEN \A k \in CandidatesWith(u) :
                    k <= Len(EarlierJobs(dom)) /\ n_ret[k] = EarlierJobs(dom)[k]
            ELSE OnlyFirstAnchor(dom, u)

\* a crawl has returned one candidate for a relative and an absolute anchor
\* that resolve to the same url, which nothing before the anchors gave
C5_Witness ==
    /\ FromExtraction
    /\ ~dom.anchors_raise
    /\ \E u \in SharedUrls(dom) :
          /\ u \notin UrlsOf(EarlierJobs(dom))
          /\ \E i, j \in AcceptedAt(dom, u) : dom.anchors[i].href # dom.anchors[j].href
          /\ Cardinality(CandidatesWith(u)) = 1

\* C10: crawls that ended with different outcomes (no-jobs phrase, zero
\* candidates, failed crawl) gave their caller different return values.
C10_OutcomesDistinguishable ==
    \A a, b \in signals : a.outcome # b.outcome => a.value # b.value


-----------------------------------------------------------------------------
(* Properties of the job extractor *)

\* C11 as claimed: for one company, a call in which every fetch stage failed
\* and a call in which the page was fetched but no job was found return
\* different values, from extract_jobs_from_companies and from
\* extract_jobs_from_single_company.
C11_FetchFailureDistinguishable ==
    \A a, b \in returned :
        (/\ a.company = b.company
         /\ a.outcome = "fetch_failed"
         /\ b.outcome = "no_jobs_found")
        => /\ a.value.companies # b.value.companies
           /\ a.value.single # b.value.single


-----------------------------------------------------------------------------
(* Properties of the pipeline of find_job_urls *)

\* the steps of find_job_urls, in the order of lines 56-96
PipelineOrder ==
    << "navigation", "redirect_resolution", "no_jobs_detection", "iframe_delegation",
       "dynamic_wait", "infinite_scroll", "tab_traversal", "filter_defaulting",
       "form_interaction", "accordion_expansion", "link_extraction" >>

\* C12: the steps invoked so far are always an initial part of the fixed order
\* navigation, redirect resolution, no-jobs detection, iframe delegation,
\* dynamic-content wait, infinite scroll, tab traversal, filter defaulting, form
\* interaction, accordion expansion, link extraction (so a step starts only
\* after the one before it returned, and none runs twice), and a crawl that
\* reached link extraction has invoked every one of them exactly once.
C12_StepsInFixedOrder ==
    /\ \E n \in 0..Len(PipelineOrder) : calls = SubSeq(PipelineOrder, 1, n)
    /\ Invoked("link_extraction") => calls = PipelineOrder

\* a crawl went through link extraction and returned jobs
C12_Witness ==
    /\ n_pc = "ret_jobs"
    /\ Invoked("link_extraction")
    /\ Len(calls) = Len(PipelineOrder)


(* Properties of the interaction steps of find_job_urls *)

\* the steps from the no-jobs detection through the accordion expansion
InteractionSteps ==
    {"no_jobs_detection", "iframe_delegation"} \cup BestEffortSteps

\* a browser operation raised inside step during this crawl
RaisedIn(step) ==
    /\ Invoked(step)
    /\ CASE step = "no_jobs_detection" -> page_text.raises
         [] step = "iframe_delegation" -> \E i \in 1..Len(frames) : frames[i] = "raises"
         [] OTHER -> step \in faults

\* find_job_urls went through every step and returned what the link extraction
\* found on the page
RanToExtraction ==
    /\ n_pc \in {"ret_jobs", "ret_empty"}
    /\ calls = PipelineOrder
    /\ n_ret = _extract_job_links(dom, careers_url).jobs

\* C13 as claimed: when a browser operation raises inside one of the steps from
\* the no-jobs detection through the accordion expansion, every later step
\* and the link extraction are still invoked and find_job_urls returns the
\* result of the link extraction.
C13_Original ==
    \A step \in InteractionSteps :
        (RaisedIn(step) /\ n_pc \in ReturnPoints) => RanToExtraction

\* C13 amended: when a browser operation raises inside one of the steps from
\* the no-jobs detection through the accordion expansion, the exception does not
\* end the crawl: either the iframe delegation returns the jobs of an iframe
\* (after a raise in the no-jobs detection or in an earlier iframe), or every
\* later step and the link extraction are invoked and find_job_urls returns
\* the result of the link extraction.
C13_Amended ==
    \A step \in InteractionSteps :
        (RaisedIn(step) /\ n_pc \in ReturnPoints) =>
            \/ RanToExtraction
            \/ /\ step \in {"no_jobs_detection", "iframe_delegation"}
               /\ n_pc = "ret_iframe"
               /\ frames # <<>>
               /\ frames[Len(frames)] = "jobs"
               /\ n_ret # <<>>

C13_Witness ==
    /\ n_pc = "ret_jobs"
    /\ page_text.raises
    /\ faults = BestEffortSteps
    /\ \A step \in InteractionSteps \ {"iframe_delegation"} : RaisedIn(step)


-----------------------------------------------------------------------------
(* One call of _extract_title_from_text *)

\* the prefixes of the list as link texts spell them
TitlePrefixes ==
    {prefixes_to_remove[i] : i \in 1..Len(prefixes_to_remove)}
        \cup {Title(prefixes_to_remove[i]) : i \in 1..Len(prefixes_to_remove)}
        \cup {"Apply for"}

\* the suffixes of the list as link texts spell them
TitleSuffixes ==
    {suffixes_to_remove[i] : i \in 1..Len(suffixes_to_remove)}
        \cup {Title(suffixes_to_remove[i]) : i \in 1..Len(suffixes_to_remove)}

\* what stands between the prefix and the suffix
TitleCores ==
    { " Senior Engineer", " senior engineer", " CTO", " 3D Artist ",
      " Job: Analyst", "er Analyst", "", " " }

\* a link text taken apart
TitleInputs ==
    [prefix : TitlePrefixes, core : TitleCores, suffix : TitleSuffixes]

InitTitle ==
    /\ p_call = ""
    /\ p_arg \in TitleInputs
    /\ p_ret = None
    /\ FetchIdle
    /\ NavIdle
    /\ ExtractIdle
    /\ StepsIdle

    /\ EnrichIdle
\* title = self._extract_title_from_text(text)
ExtractTitle ==
    /\ p_call = ""
    /\ p_call' = "_extract_title_from_text"
    /\ p_ret' = _extract_title_from_text(p_arg.prefix \o p_arg.core \o p_arg.suffix)
    /\ UNCHANGED p_arg
    /\ UNCHANGED fetchVars
    /\ UNCHANGED navVars
    /\ UNCHANGED extVars
    /\ UNCHANGED stepVars

    /\ UNCHANGED enrichVars
NextTitle == ExtractTitle

SpecTitle == InitTitle /\ [][NextTitle]_vars

(* Properties of _extract_title_from_text *)

\* _extract_title_from_text has returned
TitleReturned == p_call = "_extract_title_from_text"

\* str.title() applied to a string whose cased characters are all of one case
Capitalized(s) == IF IsLower(s) \/ IsUpper(s) THEN Title(s) ELSE s

\* C14 as claimed: for every text made of a known prefix, a core and a known
\* suffix, _extract_title_from_text returns the core, trimmed, with the
\* prefix and the suffix removed.
C14_Original ==
    TitleReturned => p_ret = Strip(p_arg.core)

\* C14 amended: "Apply for Senior Engineer - View" becomes "Senior Engineer",
\* and for every text made of a known prefix, a core and a known suffix,
\* _extract_title_from_text returns the trimmed core with the prefix and the
\* suffix removed, put in title case when its letters are all lower case or
\* all upper case.
C14_Amended ==
    TitleReturned =>
        /\ p_ret = Capitalized(Strip(p_arg.core))
        /\ p_arg = [prefix |-> "Apply for", core |-> " Senior Engineer", suffix |-> " - View"]
               => p_ret = "Senior Engineer"

C14_Witness ==
    /\ TitleReturned
    /\ p_arg = [prefix |-> "Apply for", core |-> " CTO", suffix |-> " - View"]
    /\ p_ret = "Cto"


(* Properties of the urls of the candidates *)

\* the href attributes of the anchors of d and of the first anchors of its cards
HrefsOf(d) ==
    {d.anchors[i].href : i \in {k \in 1..Len(d.anchors) : d.anchors[k].has_href}}
        \cup {d.cards[i].href : i \in {k \in 1..Len(d.cards) : d.cards[k].has_href}}

\* url is the page url base or an href of d resolved against base
ResolvedAgainst(url, base, d) ==
    \/ url = base
    \/ \E href \in HrefsOf(d) : url = urljoin(base, href)

\* the navigation was redirected
Redirected == careers_url # n_requested

\* C15 as claimed: the job_url of every candidate find_job_urls returns is the
\* effective careers url or an href resolved against it, and after a redirect
\* no job_url is resolved against, or equal to, the url requested.
C15_Original ==
    FromExtraction =>
        \A i \in 1..Len(n_ret) :
            /\ ResolvedAgainst(n_ret[i].job_url, careers_url, dom)
            /\ Redirected => n_ret[i].job_url # n_requested

\* C15 amended: the job_url of every candidate find_job_urls returns is the
\* effective careers url or an href resolved against it; after a redirect a
\* job_url is equal to the url requested only where an href of the page
\* resolves to it against the effective url.
C15_Amended ==
    FromExtraction =>
        \A i \in 1..Len(n_ret) :
            /\ ResolvedAgainst(n_ret[i].job_url, careers_url, dom)
            /\ (Redirected /\ n_ret[i].job_url = n_requested)
                   => \E href \in HrefsOf(dom) : urljoin(careers_url, href) = n_requested

C15_Witness ==
    /\ n_pc = "ret_jobs"
    /\ Redirected
    /\ \E i \in 1..Len(n_ret) :
           /\ n_ret[i].job_url = urljoin(careers_url, "/careers/senior-engineer-42")
           /\ n_ret[i].job_url # urljoin(n_requested, "/careers/senior-engineer-42")
    /\ \E i \in 1..Len(n_ret) : n_ret[i].job_url = careers_url


(* Properties of the retries of the fetch chain *)

\* the positions in requests of the requests that follow an earlier request
\* of the same stage
RetryRequests ==
    {i \in 1..Len(requests) : \E j \in 1..(i - 1) : requests[j].stage = requests[i].stage}

\* C16 as claimed: while one url goes through the fetch chain, at most one
\* retry request is made over all stages, a retry asks for the www-stripped
\* url, and no stage is attempted a second time for the same url.
C16_AtMostOneRetry ==
    /\ Cardinality(RetryRequests) <= 1
    /\ \A i \in RetryRequests :
           /\ Contains(normalize_url(f_url), "://www.")
           /\ requests[i].url = NonWwwUrl(normalize_url(f_url))
    /\ \A i, j \in 1..Len(stages) : i # j => stages[i] # stages[j]
    /\ \A i, j \in 1..Len(requests) : i # j => requests[i] # requests[j]


-----------------------------------------------------------------------------
(* One anchor before the generic rule of _extract_job_links *)

\* href attributes of anchors
LinkHrefs ==
    { "mailto:jobs@acme.com", "javascript:void(0)", "#openings", "",
      "/careers/senior-engineer-42", "/jobs/apply", "/Jobs/software-engineer",
      "/about/team-page-2024", "/team", "https://acme.com/careers/",
      "https://boards.greenhouse.io/acme/handbook.pdf",
      "/careers/senior-engineer-42.PDF", "/files/roles.docx", "/jobs/spec.doc",
      "/files/benefits.rtf" }

\* inner texts of anchors
LinkTexts ==
    { "", "Senior Engineer", "Engineer", "  Lead Dev   ", "View all engineer jobs",
      "About us", "Our company news", "Developer Handbook 2024",
      "Senior Engineer - learn more about this role and how to apply" }

\* the page the anchor stands on
LinkBase == "https://acme.com/careers"

InitLink ==
    /\ p_call = ""
    /\ p_arg \in {Anchor(href, TRUE, text, FALSE) : href \in LinkHrefs, text \in LinkTexts}
    /\ p_ret = None
    /\ FetchIdle
    /\ NavIdle
    /\ ExtractIdle
    /\ StepsIdle

    /\ EnrichIdle
\* lines 383-388 and 418: the anchor is not skipped and _is_job_link says yes
IsJobLink ==
    /\ p_call = ""
    /\ p_call' = "_is_job_link"
    /\ p_ret' = [value |->
                    /\ ~SkippedHref(p_arg)
                    /\ _is_job_link(p_arg.href, Strip(p_arg.text),
                                    urljoin(LinkBase, p_arg.href))]
    /\ UNCHANGED p_arg
    /\ UNCHANGED fetchVars
    /\ UNCHANGED navVars
    /\ UNCHANGED extVars
    /\ UNCHANGED stepVars

    /\ UNCHANGED enrichVars
\* lines 380-428 for the first anchor of a page: the candidates it adds
ClassifyLink ==
    /\ p_call = ""
    /\ p_call' = "_extract_job_links"
    /\ p_ret' = [jobs |-> IF SkippedHref(p_arg) THEN <<>>
                          ELSE ClassifyAnchor(p_arg, LinkBase)]
    /\ UNCHANGED p_arg
    /\ UNCHANGED fetchVars
    /\ UNCHANGED navVars
    /\ UNCHANGED extVars
    /\ UNCHANGED stepVars

    /\ UNCHANGED enrichVars
NextLink == IsJobLink \/ ClassifyLink

SpecLink == InitLink /\ [][NextLink]_vars

(* Properties of the generic rule *)

\* href is a mailto: or javascript: href or a fragment only
RejectedOutright(href) ==
    \/ StartsWith(href, "mailto:")
    \/ StartsWith(href, "javascript:")
    \/ StartsWith(href, "#")

\* href contains a job-path pattern and its final path segment contains a
\* digit or is longer than 10 characters
JobPathWithIdentifier(href) ==
    /\ \E pattern \in job_url_patterns : Contains(Lower(href), pattern)
    /\ \/ \E i \in 1..Len(LastSegment(href)) : IsDigitChar(CharAt(LastSegment(href), i))
       \/ Len(LastSegment(href)) > 10

HasJobKeyword(text) == \E keyword \in job_keywords : Contains(Lower(text), keyword)

HasExclusionPhrase(text) == \E phrase \in exclude_keywords : Contains(Lower(text), phrase)

\* the generic rule has decided on an anchor
LinkDecided == p_call = "_is_job_link"

\* C17 as claimed: an anchor is accepted exactly when its href is not a
\* mailto:, javascript: or fragment-only href and either the href has a job
\* path with an identifier, or the text has a job keyword, no exclusion phrase
\* and more than 10 characters.
C17_Original ==
    LinkDecided =>
        (p_ret.value <=>
            /\ ~RejectedOutright(p_arg.href)
            /\ \/ JobPathWithIdentifier(p_arg.href)
               \/ /\ HasJobKeyword(Strip(p_arg.text))
                  /\ ~HasExclusionPhrase(Strip(p_arg.text))
                  /\ Len(Strip(p_arg.text)) > 10)

\* C17 amended: an anchor is accepted exactly when its href is not empty and
\* not a mailto:, javascript: or fragment-only href and either the href has a
\* job path with an identifier, or the text has a job keyword and more than 10
\* characters and, if it is shorter than 50 characters, no exclusion phrase.
C17_Amended ==
    LinkDecided =>
        (p_ret.value <=>
            /\ p_arg.href # ""
            /\ ~RejectedOutright(p_arg.href)
            /\ \/ JobPathWithIdentifier(p_arg.href)
               \/ /\ HasJobKeyword(Strip(p_arg.text))
                  /\ Len(Strip(p_arg.text)) < 50 => ~HasExclusionPhrase(Strip(p_arg.text))
                  /\ Len(Strip(p_arg.text)) > 10)

C17_Witness ==
    /\ LinkDecided
    /\ p_arg.href = "/team"
    /\ p_arg.text = "Senior Engineer - learn more about this role and how to apply"
    /\ p_ret.value


(* Properties of document links *)

\* the anchor loop has looked at an anchor
LinkClassified == p_call = "_extract_job_links"

\* the anchor resolves to a document file
DocumentLink(a) ==
    \E ext \in {".pdf", ".doc", ".docx", ".rtf"} :
        EndsWith(Lower(urljoin(LinkBase, a.href)), ext)

\* the keywords of _is_job_document are job keywords of _is_job_link
DocumentKeywordIn(text) ==
    \E keyword \in document_job_keywords \cap job_keywords : Contains(Lower(text), keyword)

\* C18: an anchor that resolves to a document file becomes a candidate only if
\* its text contains a job keyword, also when its url is on an ATS domain or
\* passes the generic rule.
C18_DocumentsNeedKeyword ==
    (LinkClassified /\ DocumentLink(p_arg)) =>
        (p_ret.jobs # <<>> => DocumentKeywordIn(p_arg.text))

\* a document on an ATS domain whose text has no job keyword was looked at and
\* gave no candidate
C18_Witness ==
    /\ LinkClassified
    /\ p_arg.href = "https://boards.greenhouse.io/acme/handbook.pdf"
    /\ p_arg.text = "About us"
    /\ IsAtsHref(p_arg.href)
    /\ p_ret.jobs = <<>>


(* Properties of the merged list *)

\* C19 as claimed: the list find_job_urls returns from an extraction never
\* holds two candidates with the same job_url.
C19_NoDuplicateUrls ==
    FromExtraction =>
        \A i, j \in 1..Len(n_ret) : i # j => n_ret[i].job_url # n_ret[j].job_url


\* C20 as claimed: the number of candidates one crawl returns stays under a
\* fixed maximum however many anchors the page holds. A maximum that is fixed
\* lies under the number of anchors of the largest pages, so on those pages
\* fewer candidates than anchors are returned.
C20_CountCapped ==
    (FromExtraction /\ ~dom.anchors_raise /\ Len(dom.anchors) = MaxAnchors)
        => Len(n_ret) < MaxAnchors


(* Properties of the iframe delegation *)

\* C24: when find_job_urls returns the candidates of an iframe, that iframe is
\* one of the first three of the page and the first that yields a candidate,
\* whatever the iframes before it did (no content frame, an error, no
\* candidate); the candidates returned are exactly that iframe's, and no step
\* after the iframe delegation has run, nor the extraction on the main
\* document.
C24_IframeDelegation ==
    n_pc = "ret_iframe" =>
        /\ Len(frames) \in 1..IFRAME_LIMIT
        /\ frames[Len(frames)] = "jobs"
        /\ \A i \in 1..(Len(frames) - 1) : frames[i] # "jobs"
        /\ n_ret # <<>>
        /\ n_ret = _extract_job_links(dom, careers_url).jobs
        /\ dom \in FrameDocs(pages, careers_url)
        /\ calls = SubSeq(PipelineOrder, 1, 4)

\* the third iframe gave the candidates after the first raised and the second
\* had no content frame
C24_Witness ==
    /\ n_pc = "ret_iframe"
    /\ frames = <<"raises", "none", "jobs">>
    /\ n_ret # <<>>


(* Properties of the order of the strategies of the job extractor *)

\* find_job_urls has returned for the company and gave no job with a url that
\* is neither empty nor a mailto: one
NoValidJob == e_nav # None /\ ValidJobs(e_nav.jobs, 1) = <<>>

\* the loop body is past the call of scrape_http
PastHttp == e_pc \in {"scrape_playwright", "ai", "collect", "return", "returned", "raised"}

\* _extract_jobs_with_ai is about to be called or has just returned
AtAi == e_pc = "ai" \/ (e_pc = "collect" /\ stages # <<>>)

\* C27: for a company the navigator runs first; the fetches of the fallback
\* are made if and only if the navigator returned no job with a non-empty,
\* non-mailto job_url; scrape_playwright is called only after scrape_http
\* failed, and _extract_jobs_with_ai only after one of the two succeeded.
C27_StrategiesInOrder ==
    /\ stages # <<>> => NoValidJob
    /\ (NoValidJob /\ PastHttp) => (stages # <<>> /\ stages[1] = "http")
    /\ (e_nav # None /\ ~NoValidJob) => (stages = <<>> /\ e_pc \notin {"scrape_http", "ai"})
    /\ (\E i \in 1..Len(stages) : stages[i] = "playwright")
           => /\ stages = <<"http", "playwright">>
              /\ results.http # None
              /\ ~Usable(results.http)
    /\ AtAi => \/ results.http # None /\ Usable(results.http)
               \/ results.playwright # None /\ Usable(results.playwright)

\* the navigator returned only a job with a mailto: url, and the page fetched
\* by the headless browser after the failed request went to the model
C27_Witness ==
    /\ e_pc = "collect"
    /\ e_nav # None
    /\ e_nav.jobs # <<>>
    /\ NoValidJob
    /\ stages = <<"http", "playwright">>
    /\ Usable(results.playwright)

\* C30 as claimed: after the navigator has met a no-jobs phrase on the careers
\* page of a company, no fetch and no AI extraction is made for the company
\* and the company is not in the returned list.
C30_NoJobsEndsCompany ==
    (e_nav # None /\ e_nav.no_jobs) =>
        /\ stages = <<>>
        /\ e_pc \notin {"scrape_http", "scrape_playwright", "ai"}
        /\ enriched = <<>>

-----------------------------------------------------------------------------
(* The page interactions of one crawl: what the steps of lines 81-96 do to the page *)

\* an operation on the page: what was done, through which selector, with which
\* value (the index of the element among the matches, the height read, the
\* number of matches) and whether it went through (FALSE: it raised)
Op(op, target, arg, ok) == [op |-> op, target |-> target, arg |-> arg, ok |-> ok]

\* the operations of a trace that are of one kind
OpsOf(ops, op) == SelectSeq(ops, LAMBDA o : o.op = op)

\* the steps of find_job_urls that drive the page, in the order of lines 81-96
InteractionOrder ==
    << "_handle_infinite_scroll", "_click_all_tabs", "_try_search_filters",
       "_handle_forms", "_try_expand_job_list", "_extract_job_links" >>

\* the local variables a step starts with
Locals(fn) ==
    CASE fn = "_click_all_tabs" -> [selector |-> 1]
      [] fn = "_try_search_filters" -> [option |-> 1]
      [] fn = "_try_expand_job_list" -> [keyword |-> 1, variant |-> 1]
      [] OTHER -> None

\* the page is loaded and find_job_urls is at line 81
InteractionStart ==
    /\ b_fn = InteractionOrder[1]
    /\ b_pc = "run"
    /\ b_loc = Locals(InteractionOrder[1])
    /\ b_ops = <<>>

\* find_job_urls goes from one step to the next (no step's result is used);
\* b_ops starts again with each step
NextInteraction ==
    /\ b_pc = "done"
    /\ \E n \in 1..(Len(InteractionOrder) - 1) :
           /\ b_fn = InteractionOrder[n]
           /\ b_fn' = InteractionOrder[n + 1]
           /\ b_loc' = Locals(InteractionOrder[n + 1])
    /\ b_pc' = "run"
    /\ b_ops' = <<>>
    /\ UNCHANGED fetchVars
    /\ UNCHANGED navVars
    /\ UNCHANGED extVars
    /\ UNCHANGED pureVars
    /\ UNCHANGED enrichVars

\* ---- _handle_infinite_scroll ----

\* range(5)
SCROLL_LIMIT == 5

load_more_selectors ==
    << "button:has-text(\"Load More\")", "button:has-text(\"Show More\")",
       "button:has-text(\"View More\")", "a:has-text(\"Load More\")",
       "[class*=\"load-more\"]", "[class*=\"show-more\"]" >>

\* the largest height a page is measured with
MaxHeight == 2

Heights == 1..MaxHeight

\* what a page answers, in one iteration, to is_visible on the first match of
\* each load-more selector ("yes", "no", "raises") and whether a click goes through
LoadMorePage(visible, click_ok) == [visible |-> visible, click_ok |-> click_ok]

LoadMorePages ==
    { LoadMorePage([k \in 1..6 |-> "no"], TRUE),
      LoadMorePage([k \in 1..6 |-> IF k \in {1, 4} THEN "yes" ELSE "no"], TRUE),
      LoadMorePage([k \in 1..6 |-> IF k = 2 THEN "raises" ELSE IF k = 4 THEN "yes" ELSE "no"], TRUE),
      LoadMorePage([k \in 1..6 |-> IF k >= 5 THEN "yes" ELSE "no"], FALSE) }

\* a load-more loop without its break: every visible control is clicked
RECURSIVE LoadMore_NoBreak(_, _)
LoadMore_NoBreak(page, k) ==
    IF k > Len(load_more_selectors) THEN <<>>
    ELSE IF page.visible[k] = "raises" THEN <<>>
    ELSE IF page.visible[k] = "yes"
         THEN IF page.click_ok
              THEN <<Op("click", load_more_selectors[k], 1, TRUE)>>
                       \o LoadMore_NoBreak(page, k + 1)
              ELSE <<Op("click", load_more_selectors[k], 1, FALSE)>>
    ELSE LoadMore_NoBreak(page, k + 1)

\* lines 197-211: the operations of the load-more loop from selector k on.
\* The first visible control is clicked and the loop is left (break); whatever
\* raises ends the loop as well (except: pass)
RECURSIVE LoadMore(_, _)
LoadMore(page, k) ==
    IF k > Len(load_more_selectors) THEN <<>>
    ELSE IF page.visible[k] = "raises" THEN <<>>
    ELSE IF page.visible[k] = "yes"
         THEN <<Op("click", load_more_selectors[k], 1, page.click_ok)>>
    ELSE LoadMore(page, k + 1)

\* line 189: the height is read before the loop; when the read raises the
\* function is over (line 219)
ScrollStart ==
    /\ b_fn = "_handle_infinite_scroll"
    /\ b_pc = "run"
    /\ b_loc = None
    /\ \E read \in BOOLEAN, h \in Heights :
           IF read
           THEN /\ b_loc' = [i |-> 0, previous_height |-> h]
                /\ b_ops' = Append(b_ops, Op("height", "body", h, TRUE))
                /\ b_pc' = "run"
           ELSE /\ b_pc' = "done"
                /\ UNCHANGED <<b_loc, b_ops>>
    /\ UNCHANGED b_fn
    /\ UNCHANGED fetchVars
    /\ UNCHANGED navVars
    /\ UNCHANGED extVars
    /\ UNCHANGED pureVars
    /\ UNCHANGED enrichVars

\* lines 192-217: one iteration of the loop. scrolled FALSE: the scroll (or the
\* wait after it) raises; read FALSE: reading the new height raises
ScrollIteration ==
    /\ b_fn = "_handle_infinite_scroll"
    /\ b_pc = "run"
    /\ b_loc # None
    /\ \E scrolled \in BOOLEAN, page \in LoadMorePages, read \in BOOLEAN, new_height \in Heights :
           LET Measured(ops) ==
                   IF ~read
                   THEN /\ b_ops' = ops
                        /\ b_pc' = "done"
                        /\ UNCHANGED b_loc
                   ELSE /\ b_ops' = Append(ops, Op("height", "body", new_height, TRUE))
                        /\ b_loc' = [i |-> b_loc.i + 1, previous_height |-> new_height]
                        /\ b_pc' = IF \/ new_height = b_loc.previous_height
                                      \/ b_loc.i + 1 = SCROLL_LIMIT
                                   THEN "done" ELSE "run"
           IN  IF ~scrolled
               THEN /\ b_pc' = "done"
                    /\ UNCHANGED <<b_loc, b_ops>>
               ELSE Measured(Append(b_ops, Op("scroll", "window", b_loc.i, TRUE))
                                 \o LoadMore(page, 1))
    /\ UNCHANGED b_fn
    /\ UNCHANGED fetchVars
    /\ UNCHANGED navVars
    /\ UNCHANGED extVars
    /\ UNCHANGED pureVars
    /\ UNCHANGED enrichVars

\* ---- _click_all_tabs ----

tab_selectors ==
    << "[role=\"tab\"]", ".tab", "[class*=\"tab\"]", "[data-tab]", "button[class*=\"Tab\"]" >>

\* tabs[:10]
TAB_LIMIT == 10

\* the most elements a tab selector matches
MaxTabs == 11

\* what the n elements a selector matches do when the loop comes to them:
\* "clicked", "hidden" (is_visible is False), "visible_raises", "click_raises";
\* at most one of them is not clicked
TabPages(n) ==
    { [k \in 1..n |-> "clicked"] } \cup
    { [k \in 1..n |-> IF k = bad THEN o ELSE "clicked"] :
          bad \in 1..n, o \in {"hidden", "visible_raises", "click_raises"} }

\* a loop over all the matched elements, whatever their number
RECURSIVE ClickTabs_All(_, _, _)
ClickTabs_All(selector, tabs, k) ==
    IF k > Len(tabs) THEN <<>>
    ELSE (IF tabs[k] \in {"clicked", "click_raises"}
          THEN <<Op("click", selector, k, tabs[k] = "clicked")>>
          ELSE <<>>) \o ClickTabs_All(selector, tabs, k + 1)

\* lines 237-243: the operations of the loop over tabs[:10] from element k on;
\* what raises on one element is passed over (except: continue)
RECURSIVE ClickTabs(_, _, _)
ClickTabs(selector, tabs, k) ==
    IF k > Min(Len(tabs), TAB_LIMIT) THEN <<>>
    ELSE (IF tabs[k] \in {"clicked", "click_raises"}
          THEN <<Op("click", selector, k, tabs[k] = "clicked")>>
          ELSE <<>>) \o ClickTabs(selector, tabs, k + 1)

\* lines 232-246: one selector of the loop. located FALSE: locator(...).all()
\* raises (except: continue); with more than one match the tabs are clicked
\* through and the function returns
TabsSelector ==
    /\ b_fn = "_click_all_tabs"
    /\ b_pc = "run"
    /\ \E located \in BOOLEAN, n \in 0..MaxTabs :
           LET selector == tab_selectors[b_loc.selector]
               Continue(ops) ==
                   /\ b_ops' = ops
                   /\ IF b_loc.selector = Len(tab_selectors)
                      THEN b_pc' = "done" /\ UNCHANGED b_loc
                      ELSE b_pc' = "run" /\ b_loc' = [selector |-> b_loc.selector + 1]
           IN  IF ~located
               THEN n = 0 /\ Continue(Append(b_ops, Op("all", selector, 0, FALSE)))
               ELSE IF n > 1
               THEN \E tabs \in TabPages(n) :
                        /\ b_ops' = Append(b_ops, Op("all", selector, n, TRUE))
                                        \o ClickTabs(selector, tabs, 1)
                        /\ b_pc' = "done"
                        /\ UNCHANGED b_loc
               ELSE Continue(Append(b_ops, Op("all", selector, n, TRUE)))
    /\ UNCHANGED b_fn
    /\ UNCHANGED fetchVars
    /\ UNCHANGED navVars
    /\ UNCHANGED extVars
    /\ UNCHANGED pureVars
    /\ UNCHANGED enrichVars

\* ---- _try_search_filters ----

all_options ==
    << "option:has-text(\"All\")", "option:has-text(\"All Departments\")",
       "option:has-text(\"All Locations\")", "option:has-text(\"All Teams\")",
       "[value=\"all\"]", "[value=\"\"]" >>

\* lines 262-269: one option of the loop. The click on the first match goes
\* through and the function returns ("clicked"), or it raises ("click_raises"),
\* or the wait after it raises ("wait_raises"): except: continue
FilterOption ==
    /\ b_fn = "_try_search_filters"
    /\ b_pc = "run"
    /\ \E o \in {"clicked", "click_raises", "wait_raises"} :
           /\ b_ops' = Append(b_ops, Op("click", all_options[b_loc.option], 1,
                                        o # "click_raises"))
           /\ IF o = "clicked" \/ b_loc.option = Len(all_options)
              THEN b_pc' = "done" /\ UNCHANGED b_loc
              ELSE b_pc' = "run" /\ b_loc' = [option |-> b_loc.option + 1]
    /\ UNCHANGED b_fn
    /\ UNCHANGED fetchVars
    /\ UNCHANGED navVars
    /\ UNCHANGED extVars
    /\ UNCHANGED pureVars
    /\ UNCHANGED enrichVars

\* ---- _handle_forms ----

\* consent_checkboxes[:3]
CHECKBOX_LIMIT == 3

\* the most checkboxes a page has
MaxBoxes == 4

\* line 279: the checkboxes are located; when that raises the function is over
FormsStart ==
    /\ b_fn = "_handle_forms"
    /\ b_pc = "run"
    /\ b_loc = None
    /\ \E located \in BOOLEAN, n \in 0..MaxBoxes :
           IF located /\ n > 0
           THEN /\ b_loc' = [consent_checkboxes |-> n, k |-> 1]
                /\ b_pc' = "run"
           ELSE /\ b_pc' = "done"
                /\ UNCHANGED b_loc
    /\ UNCHANGED <<b_fn, b_ops>>
    /\ UNCHANGED fetchVars
    /\ UNCHANGED navVars
    /\ UNCHANGED extVars
    /\ UNCHANGED pureVars
    /\ UNCHANGED enrichVars

\* lines 280-286: one checkbox of consent_checkboxes[:3]. It is checked already
\* ("checked"), or is_checked raises, or it is not checked and check() goes
\* through ("unchecked") or raises ("check_raises")
FormsCheckbox ==
    /\ b_fn = "_handle_forms"
    /\ b_pc = "run"
    /\ b_loc # None
    /\ \E o \in {"checked", "is_checked_raises", "unchecked", "check_raises"} :
           b_ops' = IF o \in {"unchecked", "check_raises"}
                    THEN Append(b_ops, Op("check", "input[type=\"checkbox\"]", b_loc.k,
                                          o = "unchecked"))
                    ELSE b_ops
    /\ IF b_loc.k = Min(b_loc.consent_checkboxes, CHECKBOX_LIMIT)
       THEN b_pc' = "done" /\ UNCHANGED b_loc
       ELSE b_pc' = "run" /\ b_loc' = [b_loc EXCEPT !.k = @ + 1]
    /\ UNCHANGED b_fn
    /\ UNCHANGED fetchVars
    /\ UNCHANGED navVars
    /\ UNCHANGED extVars
    /\ UNCHANGED pureVars
    /\ UNCHANGED enrichVars

\* ---- _try_expand_job_list ----

expand_keywords ==
    << "view all", "see all", "show all", "all openings", "all positions",
       "open positions", "open roles", "current openings", "view openings",
       "see openings", "load more", "show more" >>

\* the button and the link version of a keyword's locator
ExpandLocator(keyword, variant) ==
    (IF variant = 1 THEN "button" ELSE "a") \o ":has-text('" \o keyword \o "')"

\* the most controls of the expansion lexicon a page lets the step click
MaxControls == 2

\* lines 316-336: one try block of the loop over the keywords, the button
\* version (variant 1) or the link version (variant 2) of a keyword. The
\* control is not visible ("hidden", the same when is_visible raises); or it is
\* clicked and the page becomes idle: return True ("clicked"); or the click
\* raises ("click_raises"), or the click goes through and
\* wait_for_load_state("networkidle") times out ("idle_timeout"): except: pass
ExpandAttempt ==
    /\ b_fn = "_try_expand_job_list"
    /\ b_pc = "run"
    /\ \E o \in {"hidden", "clicked", "click_raises", "idle_timeout"} :
           /\ o # "hidden" => Len(OpsOf(b_ops, "click")) < MaxControls
           /\ b_ops' = IF o = "hidden" THEN b_ops
                       ELSE Append(b_ops,
                                   Op("click",
                                      ExpandLocator(expand_keywords[b_loc.keyword], b_loc.variant),
                                      1, o # "click_raises"))
           /\ IF \/ o = "clicked"
                 \/ b_loc.keyword = Len(expand_keywords) /\ b_loc.variant = 2
              THEN b_pc' = "done" /\ UNCHANGED b_loc
              ELSE /\ b_pc' = "run"
                   /\ b_loc' = IF b_loc.variant = 1
                               THEN [b_loc EXCEPT !.variant = 2]
                               ELSE [keyword |-> b_loc.keyword + 1, variant |-> 1]
    /\ UNCHANGED b_fn
    /\ UNCHANGED fetchVars
    /\ UNCHANGED navVars
    /\ UNCHANGED extVars
    /\ UNCHANGED pureVars
    /\ UNCHANGED enrichVars

\* ---- _extract_job_links ----

\* line 96: the link extraction on the page as the steps left it; STRATEGY 2 of
\* _find_expandable_jobs clicks the elements of the expandable selectors
ExtractLinksFromPage ==
    /\ b_fn = "_extract_job_links"
    /\ b_pc = "run"
    /\ \E t \in PageTexts, base_url \in CareersUrls :
           \E d \in Docs("any", t, base_url) :
               b_ops' = [k \in 1.._extract_job_links(d, base_url).clicks |->
                             Op("click", "expandable_selectors", k, TRUE)]
    /\ b_pc' = "done"
    /\ UNCHANGED <<b_fn, b_loc>>
    /\ UNCHANGED fetchVars
    /\ UNCHANGED navVars
    /\ UNCHANGED extVars
    /\ UNCHANGED pureVars
    /\ UNCHANGED enrichVars

InitInteract ==
    InteractionStart /\ FetchIdle /\ NavIdle /\ ExtractIdle /\ PureIdle /\ EnrichIdle

NextInteract ==
    \/ ScrollStart
    \/ ScrollIteration
    \/ TabsSelector
    \/ FilterOption
    \/ FormsStart
    \/ FormsCheckbox
    \/ ExpandAttempt
    \/ ExtractLinksFromPage
    \/ NextInteraction

SpecInteract == InitInteract /\ [][NextInteract]_vars

-----------------------------------------------------------------------------
(* Properties of the page interactions *)

\* the positions of a trace at which an operation of one kind stands
At(ops, op) == {i \in 1..Len(ops) : ops[i].op = op}

\* C21: _handle_infinite_scroll scrolls to the bottom at most 5 times, clicks
\* at most one load-more control per iteration (between two clicks there is a
\* scroll, and no click comes before the first scroll), and stops after the
\* first iteration in which the height read after the scroll equals the height
\* read before it: that read is the last operation of the function.
C21_ScrollBounded ==
    b_fn = "_handle_infinite_scroll" =>
        /\ Len(OpsOf(b_ops, "scroll")) <= SCROLL_LIMIT
        /\ \A j \in At(b_ops, "click") :
               /\ \E k \in 1..Len(load_more_selectors) :
                      b_ops[j].target = load_more_selectors[k]
               /\ b_ops[j - 1].op = "scroll"
        /\ \A i \in At(b_ops, "height"), j \in At(b_ops, "height") :
               ( /\ i < j
                 /\ \A k \in (i + 1)..(j - 1) : b_ops[k].op # "height"
                 /\ b_ops[i].arg = b_ops[j].arg )
               => (j = Len(b_ops) /\ b_pc = "done")

\* five iterations, each with a click on a load-more control
C21_Witness ==
    /\ b_fn = "_handle_infinite_scroll"
    /\ b_pc = "done"
    /\ Len(OpsOf(b_ops, "scroll")) = SCROLL_LIMIT
    /\ Len(OpsOf(b_ops, "click")) = SCROLL_LIMIT

\* C22: _click_all_tabs clicks at most 10 tabs: every click is on one of the
\* first 10 elements of a selector that matched more than one element, every
\* selector tried before it matched at most one (or could not be located), no
\* selector is tried after it, and after a click that raised on one tab the
\* following tab of the first 10 is clicked.
C22_TabsBounded ==
    b_fn = "_click_all_tabs" =>
        /\ Len(OpsOf(b_ops, "click")) <= TAB_LIMIT
        /\ \A i \in At(b_ops, "all"), j \in At(b_ops, "all") :
               i < j => b_ops[i].arg <= 1
        /\ \A j \in At(b_ops, "click") :
               /\ b_ops[j].arg <= TAB_LIMIT
               /\ \E i \in At(b_ops, "all") :
                      /\ i < j
                      /\ b_ops[i].target = b_ops[j].target
                      /\ b_ops[i].arg > 1
                      /\ b_ops[j].arg <= b_ops[i].arg
                      /\ ( /\ ~b_ops[j].ok
                           /\ b_ops[j].arg < Min(b_ops[i].arg, TAB_LIMIT) )
                         => /\ j < Len(b_ops)
                            /\ b_ops[j + 1].op = "click"
                            /\ b_ops[j + 1].arg = b_ops[j].arg + 1

\* the second selector matches more than 10 elements; the click on the third
\* raises and ten clicks are made
C22_Witness ==
    /\ b_fn = "_click_all_tabs"
    /\ b_pc = "done"
    /\ Len(b_ops) = 2 + TAB_LIMIT
    /\ b_ops[2].op = "all"
    /\ b_ops[2].arg > TAB_LIMIT
    /\ ~b_ops[5].ok
    /\ Len(OpsOf(b_ops, "click")) = TAB_LIMIT

\* C23: _try_expand_job_list clicks at most one expansion control per crawl:
\* once a click on a control of the expansion lexicon went through, no further
\* control is clicked, also when the wait for network idle after it timed out.
C23_AtMostOneExpansionClick ==
    b_fn = "_try_expand_job_list" =>
        \A i \in At(b_ops, "click") : b_ops[i].ok => i = Len(b_ops)

\* an operation the steps are said to mutate the page with
ListedMutation(fn, o) ==
    \/ fn = "_handle_infinite_scroll" /\ o.op = "scroll"
    \/ /\ fn = "_handle_infinite_scroll" /\ o.op = "click"
       /\ \E k \in 1..Len(load_more_selectors) : o.target = load_more_selectors[k]
    \/ /\ fn = "_click_all_tabs" /\ o.op = "click"
       /\ \E k \in 1..Len(tab_selectors) : o.target = tab_selectors[k]
    \/ /\ fn = "_try_search_filters" /\ o.op = "click"
       /\ \E k \in 1..Len(all_options) : o.target = all_options[k]
    \/ fn = "_handle_forms" /\ o.op = "check" /\ o.arg <= CHECKBOX_LIMIT
    \/ /\ fn = "_try_expand_job_list" /\ o.op = "click"
       /\ \E k \in 1..Len(expand_keywords), v \in 1..2 :
              o.target = ExpandLocator(expand_keywords[k], v)

\* the steps before the link extraction mutate the page in the listed ways only
MutationsOfStepsListed ==
    b_fn # "_extract_job_links" =>
        /\ \A i \in 1..Len(b_ops) :
               b_ops[i].op \in {"height", "all"} \/ ListedMutation(b_fn, b_ops[i])
        /\ b_fn = "_handle_forms" => Len(b_ops) <= CHECKBOX_LIMIT

\* C25: during one crawl the page is mutated only by scrolling, a click on a
\* load-more control, a tab, an 'All' filter option or a control of the
\* expansion lexicon, and by checking at most 3 unchecked checkboxes; the form
\* step clicks nothing, and the link extraction performs no click at all.
C25_OnlyListedMutations ==
    /\ MutationsOfStepsListed
    /\ b_fn = "_extract_job_links" => At(b_ops, "click") = {}

-----------------------------------------------------------------------------
(* Parallel enrichment: CompanyIntelligence.enrich_companies, its workers'
   calls of OpenAICaller.call_with_retry, and the orchestrator's use of the result *)

\* config.py
MAX_RETRIES == 3

RETRY_DELAY == 2

\* b ** e
RECURSIVE Pow(_, _)
Pow(b, e) == IF e = 0 THEN 1 ELSE b * Pow(b, e - 1)

\* the model extract_insider_details calls with
EnrichModel == "gpt-4o-mini"

\* max_workers = min(5, len(companies))
POOL_LIMIT == 5

\* the most companies enriched in one call
MaxCompanies == 2

CompanyNames == << "Acme", "Bolt", "Core", "Dune" >>

\* one worker per company: the future of companies[w]
Workers == 1..Len(companies)

\* response.usage.total_tokens of the successful response to worker w
Tokens(w) == w

\* the workers a thread of the pool is running
Running == {w \in Workers : w_pc[w] \notin {"queued", "done"}}

\* the calls model_usage counts for a model, 0 if it has no entry
UsageCalls(usage, model) ==
    IF \E u \in usage : u.model = model
    THEN (CHOOSE u \in usage : u.model = model).calls
    ELSE 0

\* enrich_companies is called with 1..MaxCompanies companies on a new
\* CompanyIntelligence, whose one OpenAICaller has made no call
InitEnrich ==
    /\ companies \in {SubSeq(CompanyNames, 1, n) : n \in 1..MaxCompanies}
    /\ w_pc = [w \in 1..Len(companies) |-> "queued"]
    /\ w_attempt = [w \in 1..Len(companies) |-> 0]
    /\ w_sleeps = [w \in 1..Len(companies) |-> <<>>]
    /\ w_tmp = [w \in 1..Len(companies) |-> 0]
    /\ w_ret = [w \in 1..Len(companies) |-> None]
    /\ total_tokens = 0
    /\ call_count = 0
    /\ model_usage = {}
    /\ completed = <<>>
    /\ enriched_companies = <<>>
    /\ top_companies = <<>>
    /\ FetchIdle
    /\ NavIdle
    /\ ExtractIdle
    /\ PureIdle
    /\ StepsIdle

\* a thread of the pool takes the future of worker w: _enrich_single_company
\* runs up to the call of call_with_retry (lines 136-148 and 109)
StartWorker(w) ==
    /\ w_pc[w] = "queued"
    /\ Cardinality(Running) < Min(POOL_LIMIT, Len(companies))
    /\ w_pc' = [w_pc EXCEPT ![w] = "create"]
    /\ UNCHANGED <<companies, w_attempt, w_sleeps, w_tmp, w_ret, total_tokens, call_count,
                   model_usage, completed, enriched_companies, top_companies>>
    /\ UNCHANGED fetchVars
    /\ UNCHANGED navVars
    /\ UNCHANGED extVars
    /\ UNCHANGED pureVars
    /\ UNCHANGED stepVars

\* an attempt after whose last failure the delay is slept as well
ApiAttempt_SleepsAfterLast(w) ==
    /\ w_pc[w] = "create"
    /\ w_attempt' = [w_attempt EXCEPT ![w] = @ + 1]
    /\ \E ok \in BOOLEAN :
           IF ok
           THEN /\ w_ret' = [w_ret EXCEPT ![w] = [content |-> companies[w]]]
                /\ w_pc' = [w_pc EXCEPT ![w] = "tokens_read"]
                /\ UNCHANGED w_sleeps
           ELSE /\ w_sleeps' = [w_sleeps EXCEPT
                                   ![w] = Append(@, Pow(RETRY_DELAY, w_attempt[w] + 1))]
                /\ w_pc' = [w_pc EXCEPT ![w] = IF w_attempt[w] < MAX_RETRIES - 1
                                                THEN "create" ELSE "return"]
                /\ UNCHANGED w_ret
    /\ UNCHANGED <<companies, w_tmp, total_tokens, call_count, model_usage, completed,
                   enriched_companies, top_companies>>
    /\ UNCHANGED fetchVars
    /\ UNCHANGED navVars
    /\ UNCHANGED extVars
    /\ UNCHANGED pureVars
    /\ UNCHANGED stepVars

\* call_openai.py lines 37-66 and 87-96: one iteration of `for attempt in
\* range(MAX_RETRIES)` up to the response. w_attempt[w] is `attempt`. The
\* request succeeds and content is read (w_ret), or something raises: the
\* delay is slept and the loop goes on, or after the last attempt None is returned
ApiAttempt(w) ==
    /\ w_pc[w] = "create"
    /\ w_attempt' = [w_attempt EXCEPT ![w] = @ + 1]
    /\ \E ok \in BOOLEAN :
           IF ok
           THEN /\ w_ret' = [w_ret EXCEPT ![w] = [content |-> companies[w]]]
                /\ w_pc' = [w_pc EXCEPT ![w] = "tokens_read"]
                /\ UNCHANGED w_sleeps
           ELSE IF w_attempt[w] < MAX_RETRIES - 1
           THEN /\ w_sleeps' = [w_sleeps EXCEPT
                                   ![w] = Append(@, Pow(RETRY_DELAY, w_attempt[w] + 1))]
                /\ UNCHANGED <<w_pc, w_ret>>
           ELSE /\ w_pc' = [w_pc EXCEPT ![w] = "return"]
                /\ UNCHANGED <<w_sleeps, w_ret>>
    /\ UNCHANGED <<companies, w_tmp, total_tokens, call_count, model_usage, completed,
                   enriched_companies, top_companies>>
    /\ UNCHANGED fetchVars
    /\ UNCHANGED navVars
    /\ UNCHANGED extVars
    /\ UNCHANGED pureVars
    /\ UNCHANGED stepVars

\* line 68, `self.total_tokens += tokens`: the attribute is read ...
ReadTotalTokens(w) ==
    /\ w_pc[w] = "tokens_read"
    /\ w_tmp' = [w_tmp EXCEPT ![w] = total_tokens]
    /\ w_pc' = [w_pc EXCEPT ![w] = "tokens_write"]
    /\ UNCHANGED <<companies, w_attempt, w_sleeps, w_ret, total_tokens, call_count,
                   model_usage, completed, enriched_companies, top_companies>>
    /\ UNCHANGED fetchVars
    /\ UNCHANGED navVars
    /\ UNCHANGED extVars
    /\ UNCHANGED pureVars
    /\ UNCHANGED stepVars

\* ... and the sum is stored (total_input_tokens and total_output_tokens,
\* lines 69-70, are updated in the same way)
WriteTotalTokens(w) ==
    /\ w_pc[w] = "tokens_write"
    /\ total_tokens' = w_tmp[w] + Tokens(w)
    /\ w_pc' = [w_pc EXCEPT ![w] = "count_read"]
    /\ UNCHANGED <<companies, w_attempt, w_sleeps, w_tmp, w_ret, call_count,
                   model_usage, completed, enriched_companies, top_companies>>
    /\ UNCHANGED fetchVars
    /\ UNCHANGED navVars
    /\ UNCHANGED extVars
    /\ UNCHANGED pureVars
    /\ UNCHANGED stepVars

\* line 71, `self.call_count += 1`: the attribute is read ...
ReadCallCount(w) ==
    /\ w_pc[w] = "count_read"
    /\ w_tmp' = [w_tmp EXCEPT ![w] = call_count]
    /\ w_pc' = [w_pc EXCEPT ![w] = "count_write"]
    /\ UNCHANGED <<companies, w_attempt, w_sleeps, w_ret, total_tokens, call_count,
                   model_usage, completed, enriched_companies, top_companies>>
    /\ UNCHANGED fetchVars
    /\ UNCHANGED navVars
    /\ UNCHANGED extVars
    /\ UNCHANGED pureVars
    /\ UNCHANGED stepVars

\* ... and the sum is stored
WriteCallCount(w) ==
    /\ w_pc[w] = "count_write"
    /\ call_count' = w_tmp[w] + 1
    /\ w_pc' = [w_pc EXCEPT ![w] = "usage_init"]
    /\ UNCHANGED <<companies, w_attempt, w_sleeps, w_tmp, w_ret, total_tokens,
                   model_usage, completed, enriched_companies, top_companies>>
    /\ UNCHANGED fetchVars
    /\ UNCHANGED navVars
    /\ UNCHANGED extVars
    /\ UNCHANGED pureVars
    /\ UNCHANGED stepVars

\* lines 74-75: the model gets an entry if it has none
InitModelUsage(w) ==
    /\ w_pc[w] = "usage_init"
    /\ model_usage' = IF \E u \in model_usage : u.model = EnrichModel
                      THEN model_usage
                      ELSE model_usage \cup {[model |-> EnrichModel, calls |-> 0]}
    /\ w_pc' = [w_pc EXCEPT ![w] = "usage_read"]
    /\ UNCHANGED <<companies, w_attempt, w_sleeps, w_tmp, w_ret, total_tokens, call_count,
                   completed, enriched_companies, top_companies>>
    /\ UNCHANGED fetchVars
    /\ UNCHANGED navVars
    /\ UNCHANGED extVars
    /\ UNCHANGED pureVars
    /\ UNCHANGED stepVars

\* line 76, `self.model_usage[model]["calls"] += 1`: the item is read ...
ReadModelUsage(w) ==
    /\ w_pc[w] = "usage_read"
    /\ w_tmp' = [w_tmp EXCEPT ![w] = UsageCalls(model_usage, EnrichModel)]
    /\ w_pc' = [w_pc EXCEPT ![w] = "usage_write"]
    /\ UNCHANGED <<companies, w_attempt, w_sleeps, w_ret, total_tokens, call_count,
                   model_usage, completed, enriched_companies, top_companies>>
    /\ UNCHANGED fetchVars
    /\ UNCHANGED navVars
    /\ UNCHANGED extVars
    /\ UNCHANGED pureVars
    /\ UNCHANGED stepVars

\* ... and the sum is stored (the token items of lines 77-78 in the same way);
\* line 85 is reached
WriteModelUsage(w) ==
    /\ w_pc[w] = "usage_write"
    /\ model_usage' = {u \in model_usage : u.model # EnrichModel}
                          \cup {[model |-> EnrichModel, calls |-> w_tmp[w] + 1]}
    /\ w_pc' = [w_pc EXCEPT ![w] = "return"]
    /\ UNCHANGED <<companies, w_attempt, w_sleeps, w_tmp, w_ret, total_tokens, call_count,
                   completed, enriched_companies, top_companies>>
    /\ UNCHANGED fetchVars
    /\ UNCHANGED navVars
    /\ UNCHANGED extVars
    /\ UNCHANGED pureVars
    /\ UNCHANGED stepVars

\* call_with_retry returns w_ret[w], extract_insider_details and
\* _enrich_single_company return (enrich_company_intel.py lines 116-132 and
\* 155-158), and the future completes
FinishWorker(w) ==
    /\ w_pc[w] = "return"
    /\ w_pc' = [w_pc EXCEPT ![w] = "done"]
    /\ completed' = Append(completed, w)
    /\ UNCHANGED <<companies, w_attempt, w_sleeps, w_tmp, w_ret, total_tokens, call_count,
                   model_usage, enriched_companies, top_companies>>
    /\ UNCHANGED fetchVars
    /\ UNCHANGED navVars
    /\ UNCHANGED extVars
    /\ UNCHANGED pureVars
    /\ UNCHANGED stepVars

\* what _enrich_single_company returns for worker w: the company with the
\* intelligence drawn from it (from the AI's answer, or the basic description)
EnrichedCompany(w) ==
    [company_name |-> companies[w],
     insider_intelligence |-> [of |-> companies[w], from_ai |-> w_ret[w] # None]]

\* enrich_company_intel.py lines 178-182: as_completed yields the futures as
\* they complete and each result is appended to enriched
CollectAsCompleted ==
    [i \in 1..Len(completed) |-> EnrichedCompany(completed[i])]

\* lines 170-194: all futures are done and enrich_companies returns enriched
ReturnEnriched ==
    /\ \A w \in Workers : w_pc[w] = "done"
    /\ enriched_companies = <<>>
    /\ enriched_companies' = CollectAsCompleted
    /\ UNCHANGED <<companies, w_pc, w_attempt, w_sleeps, w_tmp, w_ret, total_tokens,
                   call_count, model_usage, completed, top_companies>>
    /\ UNCHANGED fetchVars
    /\ UNCHANGED navVars
    /\ UNCHANGED extVars
    /\ UNCHANGED pureVars
    /\ UNCHANGED stepVars

\* orchestrator.py lines 406-410 (and 589-592): the i-th company gets the
\* enrichment of the i-th element of the result
AttachEnrichment ==
    /\ enriched_companies # <<>>
    /\ top_companies = <<>>
    /\ top_companies' =
           [i \in 1..Len(companies) |->
               [company_name |-> companies[i],
                enrichment |-> enriched_companies[i].insider_intelligence]]
    /\ UNCHANGED <<companies, w_pc, w_attempt, w_sleeps, w_tmp, w_ret, total_tokens,
                   call_count, model_usage, completed, enriched_companies>>
    /\ UNCHANGED fetchVars
    /\ UNCHANGED navVars
    /\ UNCHANGED extVars
    /\ UNCHANGED pureVars
    /\ UNCHANGED stepVars

NextEnrich ==
    \/ \E w \in Workers : StartWorker(w)
    \/ \E w \in Workers : ApiAttempt(w)
    \/ \E w \in Workers : ReadTotalTokens(w)
    \/ \E w \in Workers : WriteTotalTokens(w)
    \/ \E w \in Workers : ReadCallCount(w)
    \/ \E w \in Workers : WriteCallCount(w)
    \/ \E w \in Workers : InitModelUsage(w)
    \/ \E w \in Workers : ReadModelUsage(w)
    \/ \E w \in Workers : WriteModelUsage(w)
    \/ \E w \in Workers : FinishWorker(w)
    \/ ReturnEnriched
    \/ AttachEnrichment

SpecEnrich == InitEnrich /\ [][NextEnrich]_vars

-----------------------------------------------------------------------------
(* Properties of the parallel enrichment *)

\* the workers whose call of call_with_retry got a successful response
Succeeded == {w \in Workers : w_ret[w] # None}

RECURSIVE TokensOf(_)
TokensOf(S) ==
    IF S = {} THEN 0
    ELSE LET w == CHOOSE x \in S : TRUE IN Tokens(w) + TokensOf(S \ {w})

\* C26: the workers of enrich_companies share no mutable state, so that when
\* all of them have finished the counters of the OpenAICaller (call_count,
\* total_tokens, model_usage) equal the exact totals over the successful calls,
\* under every interleaving.
C26_CountersExact ==
    (\A w \in Workers : w_pc[w] = "done") =>
        /\ call_count = Cardinality(Succeeded)
        /\ total_tokens = TokensOf(Succeeded)
        /\ UsageCalls(model_usage, EnrichModel) = Cardinality(Succeeded)

\* C28: call_with_retry makes at most MAX_RETRIES (3) attempts and none after
\* the first success, whose content it returns; it sleeps RETRY_DELAY **
\* (attempt + 1) seconds (2, then 4) after every failed attempt but the last
\* one and at no other time; after three failures it returns None; and the
\* counters are incremented for successful attempts only: they never exceed the
\* totals over the successful calls, and equal them when one worker runs alone.
C28_RetryBounded ==
    /\ \A w \in Workers :
           /\ w_attempt[w] <= MAX_RETRIES
           /\ w_sleeps[w] \in {<<>>, <<2>>, <<2, 4>>}
           /\ \A k \in 1..Len(w_sleeps[w]) : w_sleeps[w][k] = Pow(RETRY_DELAY, k)
           /\ w_pc[w] \in {"queued", "create"} =>
                  /\ w_ret[w] = None
                  /\ Len(w_sleeps[w]) = w_attempt[w]
                  /\ w_attempt[w] < MAX_RETRIES
           /\ w_pc[w] \notin {"queued", "create"} =>
                  IF w_ret[w] # None
                  THEN /\ w_ret[w].content = companies[w]
                       /\ Len(w_sleeps[w]) = w_attempt[w] - 1
                  ELSE /\ w_pc[w] \in {"return", "done"}
                       /\ w_attempt[w] = MAX_RETRIES
                       /\ Len(w_sleeps[w]) = MAX_RETRIES - 1
    /\ call_count <= Cardinality(Succeeded)
    /\ total_tokens <= TokensOf(Succeeded)
    /\ UsageCalls(model_usage, EnrichModel) <= Cardinality(Succeeded)
    /\ (Len(companies) = 1 /\ w_pc[1] \in {"return", "done"}) =>
           /\ call_count = Cardinality(Succeeded)
           /\ total_tokens = TokensOf(Succeeded)
           /\ UsageCalls(model_usage, EnrichModel) = Cardinality(Succeeded)

\* one call fails three times and returns None, another succeeds at its third
\* attempt, and only the latter is counted
C28_Witness ==
    /\ Len(companies) >= 2
    /\ w_pc[1] = "done" /\ w_pc[2] = "done"
    /\ w_ret[1] = None /\ w_attempt[1] = MAX_RETRIES /\ w_sleeps[1] = <<2, 4>>
    /\ w_ret[2] # None /\ w_attempt[2] = MAX_RETRIES /\ w_sleeps[2] = <<2, 4>>
    /\ call_count = 1
    /\ total_tokens = Tokens(2)

\* C29: the enrichment the orchestrator attaches to each company was computed
\* from that company, for every completion order of the workers.
C29_EnrichmentOfSameCompany ==
    \A i \in 1..Len(top_companies) :
        top_companies[i].enrichment.of = top_companies[i].company_name

=============================================================================
